---------------------------- MODULE Spec2Model ----------------------------
(***************************************************************************)
(* The AppWrapper reconciler (internal/controller/appwrapper) as a state   *)
(* machine over one workload: the persisted AppWrapper object, its child   *)
(* resources in the cluster, and the clock.  One step of Reconcile is one  *)
(* invocation of AppWrapperReconciler.Reconcile, from its read of the      *)
(* object to its return, with every write it issues.                       *)
(*                                                                         *)
(* Time is in seconds.  A condition's LastTransitionTime is held as its     *)
(* age, the time elapsed since the transition: the controller reads the    *)
(* time of a transition only to compare now with that time plus a          *)
(* duration.  Condition messages are left out: the controller never reads  *)
(* them.                                                                   *)
(***************************************************************************)
EXTENDS Integers, Sequences, FiniteSets, TLC

\* ------------------------------------------------------------------ bounds
\* Number of component templates of the workload (len(aw.Spec.Components)).
NumComponents == 2
\* Largest count of pods of one phase that a pod listing returns, and largest
\* expected pod count.
MaxPods == 1
\* Largest retry limit configured or given by annotation.
MaxRetryLimit == 1
\* Largest retry limit of the workloads whose component creation always fails.
MaxScenarioRetries == 2
\* Largest configured duration (default, maximum, time to live), in seconds;
\* the overrides run from -1 to one more than this.
MaxDuration == 2

\* --------------------------------------------------------------- constants
\* ctrl.Result{RequeueAfter: 5 * time.Second}
RequeueShort == 5
\* ctrl.Result{RequeueAfter: time.Minute}
RequeueMinute == 60

Components == 1..NumComponents

\* workloadv1beta2.AppWrapperPhase
AppWrapperEmpty == "Empty"
AppWrapperSuspended == "Suspended"
AppWrapperResuming == "Resuming"
AppWrapperRunning == "Running"
AppWrapperResetting == "Resetting"
AppWrapperSuspending == "Suspending"
AppWrapperSucceeded == "Succeeded"
AppWrapperFailed == "Failed"
AppWrapperTerminating == "Terminating"

Phases ==
    { AppWrapperEmpty, AppWrapperSuspended, AppWrapperResuming, AppWrapperRunning,
      AppWrapperResetting, AppWrapperSuspending, AppWrapperSucceeded,
      AppWrapperFailed, AppWrapperTerminating }

\* workloadv1beta2.AppWrapperCondition
QuotaReserved == "QuotaReserved"
ResourcesDeployed == "ResourcesDeployed"
PodsReady == "PodsReady"
Unhealthy == "Unhealthy"
DeletingResources == "DeletingResources"

ConditionTypes == { QuotaReserved, ResourcesDeployed, PodsReady, Unhealthy, DeletingResources }

\* metav1.ConditionStatus; "Absent" stands for a type that is not in the list.
ConditionTrue == "True"
ConditionFalse == "False"
ConditionAbsent == "Absent"

\* An annotation: not set, set to a value that does not parse, or set to a value
\* that parses, held as the number it denotes.
Absent == [kind |-> "absent", value |-> 0]
Malformed == [kind |-> "malformed", value |-> 0]
Value(n) == [kind |-> "value", value |-> n]

VARIABLES
    aw,        \* the AppWrapper object as persisted in the store
    children,  \* the child resource of each component: absent, present or terminating
    config     \* r.Config.FaultTolerance

vars == << aw, children, config >>

\* ------------------------------------------------------ condition ledger
NoCondition == [status |-> ConditionAbsent, reason |-> "", age |-> 0]

\* meta.SetStatusCondition: the reason is always replaced; LastTransitionTime
\* becomes now (age 0) only when the status changes or the condition is new.
SetStatusCondition(conds, type, status, reason) ==
    IF conds[type].status = status
    THEN [conds EXCEPT ![type].reason = reason]
    ELSE [conds EXCEPT ![type] = [status |-> status, reason |-> reason, age |-> 0]]

\* meta.IsStatusConditionTrue
IsStatusConditionTrue(conds, type) == conds[type].status = ConditionTrue

\* clearCondition: a condition that is true becomes false; any other is left alone.
clearCondition(conds, type, reason) ==
    IF IsStatusConditionTrue(conds, type)
    THEN SetStatusCondition(conds, type, ConditionFalse, reason)
    ELSE conds


\* -------------------------------------------------- grace-policy evaluator
\* workloadv1beta2.*Annotation keys read by the controller
AdmissionGracePeriodDurationAnnotation == "admissionGracePeriodDuration"
WarmupGracePeriodDurationAnnotation == "warmupGracePeriodDuration"
FailureGracePeriodDurationAnnotation == "failureGracePeriodDuration"
RetryPausePeriodDurationAnnotation == "retryPausePeriodDuration"
ForcefulDeletionGracePeriodAnnotation == "forcefulDeletionGracePeriodDuration"
DeletionOnFailureGracePeriodAnnotation == "deletionOnFailureGracePeriodDuration"
SuccessTTLAnnotation == "successTTLDuration"
RetryLimitAnnotation == "retryLimit"

AnnotationKeys ==
    { AdmissionGracePeriodDurationAnnotation, WarmupGracePeriodDurationAnnotation,
      FailureGracePeriodDurationAnnotation, RetryPausePeriodDurationAnnotation,
      ForcefulDeletionGracePeriodAnnotation, DeletionOnFailureGracePeriodAnnotation,
      SuccessTTLAnnotation, RetryLimitAnnotation }

\* `userPeriod, ok := aw.Annotations[key]` followed by time.ParseDuration or
\* strconv.Atoi with err == nil: the annotation is set and its value parses.
Parses(a, key) == a.annotations[key].kind = "value"

\* limitDuration without the floor at zero.
limitDuration_NoFloor(desired) ==
    IF desired > config.GracePeriodMaximum THEN config.GracePeriodMaximum ELSE desired

limitDuration(desired) ==
    IF desired < 0 THEN 0
    ELSE IF desired > config.GracePeriodMaximum THEN config.GracePeriodMaximum
    ELSE desired

admissionGraceDuration(a) ==
    IF Parses(a, AdmissionGracePeriodDurationAnnotation)
    THEN limitDuration(a.annotations[AdmissionGracePeriodDurationAnnotation].value)
    ELSE limitDuration(config.AdmissionGracePeriod)

warmupGraceDuration(a) ==
    IF Parses(a, WarmupGracePeriodDurationAnnotation)
    THEN limitDuration(a.annotations[WarmupGracePeriodDurationAnnotation].value)
    ELSE limitDuration(config.WarmupGracePeriod)

failureGraceDuration(a) ==
    IF Parses(a, FailureGracePeriodDurationAnnotation)
    THEN limitDuration(a.annotations[FailureGracePeriodDurationAnnotation].value)
    ELSE limitDuration(config.FailureGracePeriod)

\* strconv.Atoi, then int32(limit): the values of the model lie within int32,
\* where the conversion changes nothing.
retryLimit(a) ==
    IF Parses(a, RetryLimitAnnotation)
    THEN a.annotations[RetryLimitAnnotation].value
    ELSE config.RetryLimit

retryPauseDuration(a) ==
    IF Parses(a, RetryPausePeriodDurationAnnotation)
    THEN limitDuration(a.annotations[RetryPausePeriodDurationAnnotation].value)
    ELSE limitDuration(config.RetryPausePeriod)

forcefulDeletionGraceDuration(a) ==
    IF Parses(a, ForcefulDeletionGracePeriodAnnotation)
    THEN limitDuration(a.annotations[ForcefulDeletionGracePeriodAnnotation].value)
    ELSE limitDuration(config.ForcefulDeletionGracePeriod)

deletionOnFailureGraceDuration(a) ==
    IF Parses(a, DeletionOnFailureGracePeriodAnnotation)
    THEN limitDuration(a.annotations[DeletionOnFailureGracePeriodAnnotation].value)
    ELSE 0

\* The time to live resolved as the grace periods are: through limitDuration.
timeToLiveAfterSucceededDuration_Clamped(a) ==
    IF Parses(a, SuccessTTLAnnotation)
    THEN limitDuration(a.annotations[SuccessTTLAnnotation].value)
    ELSE limitDuration(config.SuccessTTL)

timeToLiveAfterSucceededDuration(a) ==
    IF /\ Parses(a, SuccessTTLAnnotation)
       /\ a.annotations[SuccessTTLAnnotation].value > 0
       /\ a.annotations[SuccessTTLAnnotation].value < config.SuccessTTL
    THEN a.annotations[SuccessTTLAnnotation].value
    ELSE config.SuccessTTL

\* --------------------------------------------------------- collaborators
ChildAbsent == "absent"
ChildPresent == "present"
ChildTerminating == "terminating"
ChildStates == { ChildAbsent, ChildPresent, ChildTerminating }

NoChildren == [i \in Components |-> ChildAbsent]
ChildExists(ch) == \E i \in Components : ch[i] # ChildAbsent

CreateOK == "ok"
CreateError == "error"
CreateFatal == "fatal"

\* createComponents: create-if-absent, component by component; it stops at the
\* first component whose creation fails (component k; k = NumComponents + 1
\* when none fails) and reports whether that failure is fatal.
CreatedUpTo(ch, k) ==
    [i \in Components |-> IF i < k /\ ch[i] = ChildAbsent THEN ChildPresent ELSE ch[i]]

createComponents(a, ch) ==
    { [children |-> CreatedUpTo(ch, NumComponents + 1), result |-> CreateOK] }
    \cup { [children |-> CreatedUpTo(ch, k), result |-> r] :
             k \in Components, r \in { CreateError, CreateFatal } }

\* deleteComponents: issues a delete for every child that still exists; a child
\* that is deleted either is gone at the follow-up check or is still
\* terminating.  It reports true only when no child remains.
deleteComponents(a, ch) ==
    { [children |-> c, allGone |-> ~ChildExists(c)] :
        c \in { d \in [Components -> ChildStates] :
                  \A i \in Components :
                      \/ ch[i] = ChildAbsent /\ d[i] = ChildAbsent
                      \/ ch[i] = ChildPresent /\ d[i] \in { ChildTerminating, ChildAbsent }
                      \/ ch[i] = ChildTerminating /\ d[i] = ChildTerminating } }

\* awstatus.EnsureComponentStatusInitialized: one record per declared component,
\* created once.
EnsureComponentStatusInitialized(a) ==
    IF Len(a.componentStatus) = NumComponents
    THEN a
    ELSE [a EXCEPT !.componentStatus = [i \in Components |-> [unhealthy |-> FALSE]]]

\* utils.ExpectedPodCount
ExpectedPodCount(a) == a.expectedPods

\* ------------------------------------------------------ status aggregator
PodCounts == [pending : 0..MaxPods, running : 0..MaxPods,
              succeeded : 0..MaxPods, failed : 0..MaxPods]

\* getPodStatus on a listing with the given counts of pods by phase
getPodStatus(a, pods) ==
    [expected |-> ExpectedPodCount(a), pending |-> pods.pending, running |-> pods.running,
     succeeded |-> pods.succeeded, failed |-> pods.failed]

\* getComponentStatus when every Get answers (found or not found): a child that
\* is found, terminating or not, counts as deployed; a child that is not found
\* marks its componentStatus record Unhealthy (ComponentNotFound).
Deployed(a, ch) ==
    Cardinality({ i \in DOMAIN a.componentStatus : ch[i] # ChildAbsent })

getComponentStatusSummary(a, ch) ==
    [expected |-> Len(a.componentStatus), deployed |-> Deployed(a, ch)]

getComponentStatusMarks(a, ch) ==
    [a EXCEPT !.componentStatus =
        [i \in DOMAIN a.componentStatus |->
            IF ch[i] = ChildAbsent THEN [unhealthy |-> TRUE] ELSE a.componentStatus[i]]]


\* ------------------------------------------------------------- invocation
\* What an invocation returns and what it sampled: the place it returned from,
\* whether it returned an error, ctrl.Result.RequeueAfter (0: none), the pod
\* summary when the invocation listed the pods, what createComponents returned
\* when the invocation called it, and whether the store rejected a write of
\* the invocation.
NoPods == [expected |-> 0, pending |-> 0, running |-> 0, succeeded |-> 0, failed |-> 0]
NotCalled == "not called"

Result(branch, err, requeue) ==
    [branch |-> branch, err |-> err, requeue |-> requeue, sampled |-> FALSE, pods |-> NoPods,
     create |-> NotCalled, rejected |-> FALSE]

\* r.Status().Update or r.Update returned an error: nothing of it is persisted.
Rejected(r) == [r EXCEPT !.rejected = TRUE]

\* The outcome of an invocation: the object as persisted, the children and the
\* result.
Outcome(s, ch, r) == [aw |-> s, children |-> ch, result |-> r]

WithPods(o, ps) == [o EXCEPT !.result.sampled = TRUE, !.result.pods = ps]

WithCreate(o, r) == [o EXCEPT !.result.create = r]

\* r.Status().Update(ctx, aw) that succeeds: the status of the object in memory
\* replaces the persisted status.
StatusUpdate(s, m) ==
    [s EXCEPT !.phase = m.phase, !.conditions = m.conditions, !.retries = m.retries,
              !.componentStatus = m.componentStatus]

\* r.Update(ctx, aw) that succeeds: the finalizers of the object in memory are
\* persisted; an object marked for deletion that holds no finalizer is removed.
Update(s, m) ==
    [s EXCEPT !.finalizer = m.finalizer,
              !.exists = ~(s.deletionTimestamp /\ ~m.finalizer)]

SetCond(m, type, status, reason) ==
    [m EXCEPT !.conditions = SetStatusCondition(@, type, status, reason)]

ClearCond(m, type, reason) ==
    [m EXCEPT !.conditions = clearCondition(@, type, reason)]

\* updateStatus that drops the error of the status write.
updateStatus_IgnoreError(s, m, ch, phase, ok, branch) ==
    IF ok
    THEN Outcome(StatusUpdate(s, [m EXCEPT !.phase = phase]), ch, Result(branch, FALSE, 0))
    ELSE Outcome(s, ch, Rejected(Result(branch, FALSE, 0)))

\* updateStatus: s is the persisted object, m the object in memory, ok whether
\* the status write succeeds.
updateStatus(s, m, ch, phase, ok, branch) ==
    IF ok
    THEN Outcome(StatusUpdate(s, [m EXCEPT !.phase = phase]), ch, Result(branch, FALSE, 0))
    ELSE Outcome(s, ch, Rejected(Result(branch, TRUE, 0)))

\* return ctrl.Result{RequeueAfter: d}, r.Status().Update(ctx, aw)
requeueWithUpdate(s, m, ch, d, ok, branch) ==
    IF ok
    THEN Outcome(StatusUpdate(s, m), ch, Result(branch, FALSE, d))
    ELSE Outcome(s, ch, Rejected(Result(branch, TRUE, d)))

\* resetOrFail with <= for <: one retry too many.
resetOrFail_OffByOne(s, m, ch, ok, branch) ==
    IF m.retries <= retryLimit(m)
    THEN updateStatus(s, [m EXCEPT !.retries = @ + 1], ch, AppWrapperResetting, ok, branch)
    ELSE updateStatus(s, m, ch, AppWrapperFailed, ok, branch)

resetOrFail(s, m, ch, ok, branch) ==
    IF m.retries < retryLimit(m)
    THEN updateStatus(s, [m EXCEPT !.retries = @ + 1], ch, AppWrapperResetting, ok, branch)
    ELSE updateStatus(s, m, ch, AppWrapperFailed, ok, branch)

\* The Get at the start of Reconcile fails (the object is gone, or the store
\* does not answer): Reconcile returns no error and does nothing.
GetFailed(s, ch, notFound) ==
    Outcome(s, ch, Result(IF notFound THEN "Get/NotFound" ELSE "Get/Error", FALSE, 0))

\* ------------------------------------------------------------ deletion path
DeletionRemoveFinalizer(s, m, ch, statusUpdated, w1, w2) ==
    IF statusUpdated /\ ~w1
    THEN Outcome(s, ch, Rejected(Result("Deletion/StatusUpdateFailed", TRUE, 0)))
    ELSE LET s1 == IF statusUpdated THEN StatusUpdate(s, m) ELSE s
         IN  IF w2
             THEN Outcome(Update(s1, [m EXCEPT !.finalizer = FALSE]), ch,
                          Result("Deletion/FinalizerDeleted", FALSE, 0))
             ELSE Outcome(s1, ch, Rejected(Result("Deletion/UpdateFailed", TRUE, 0)))

DeletionQuota(s, m, ch, statusUpdated, w1, w2) ==
    IF IsStatusConditionTrue(m.conditions, QuotaReserved)
    THEN DeletionRemoveFinalizer(
             s, SetCond(m, QuotaReserved, ConditionFalse, AppWrapperTerminating),
             ch, TRUE, w1, w2)
    ELSE DeletionRemoveFinalizer(s, m, ch, statusUpdated, w1, w2)

\* The deletion path that returns without a requeue while children terminate.
ReconcileDeletionOutcomes_NoRequeue(s, ch) ==
    IF ~s.finalizer
    THEN { Outcome(s, ch, Result("Deletion/NoFinalizer", FALSE, 0)) }
    ELSE IF IsStatusConditionTrue(s.conditions, ResourcesDeployed)
    THEN UNION { IF ~d.allGone
                 THEN \* one or more components are still terminating
                      IF s.phase # AppWrapperTerminating
                      THEN { Outcome(IF w1 THEN StatusUpdate(s, [s EXCEPT !.phase = AppWrapperTerminating])
                                           ELSE s,
                                     d.children,
                                     IF w1 THEN Result("Deletion/StillTerminating", FALSE, 0)
                                           ELSE Rejected(Result("Deletion/StillTerminating", FALSE, 0))) :
                               w1 \in BOOLEAN }
                      ELSE { Outcome(s, d.children, Result("Deletion/StillTerminating", FALSE, 0)) }
                 ELSE { DeletionQuota(
                            s, SetCond(s, ResourcesDeployed, ConditionFalse, AppWrapperTerminating),
                            d.children, TRUE, w1, w2) : w1 \in BOOLEAN, w2 \in BOOLEAN }
               : d \in deleteComponents(s, ch) }
    ELSE { DeletionQuota(s, s, ch, FALSE, w1, w2) : w1 \in BOOLEAN, w2 \in BOOLEAN }

\* The deletion path that never sets the phase Terminating.
ReconcileDeletionOutcomes_NoTerminating(s, ch) ==
    IF ~s.finalizer
    THEN { Outcome(s, ch, Result("Deletion/NoFinalizer", FALSE, 0)) }
    ELSE IF IsStatusConditionTrue(s.conditions, ResourcesDeployed)
    THEN UNION { IF ~d.allGone
                 THEN \* one or more components are still terminating
                      { Outcome(s, d.children, Result("Deletion/StillTerminating", FALSE, RequeueShort)) }
                 ELSE { DeletionQuota(
                            s, SetCond(s, ResourcesDeployed, ConditionFalse, AppWrapperTerminating),
                            d.children, TRUE, w1, w2) : w1 \in BOOLEAN, w2 \in BOOLEAN }
               : d \in deleteComponents(s, ch) }
    ELSE { DeletionQuota(s, s, ch, FALSE, w1, w2) : w1 \in BOOLEAN, w2 \in BOOLEAN }

ReconcileDeletionOutcomes(s, ch) ==
    IF ~s.finalizer
    THEN { Outcome(s, ch, Result("Deletion/NoFinalizer", FALSE, 0)) }
    ELSE IF IsStatusConditionTrue(s.conditions, ResourcesDeployed)
    THEN UNION { IF ~d.allGone
                 THEN \* one or more components are still terminating
                      IF s.phase # AppWrapperTerminating
                      THEN { Outcome(IF w1 THEN StatusUpdate(s, [s EXCEPT !.phase = AppWrapperTerminating])
                                           ELSE s,
                                     d.children,
                                     IF w1 THEN Result("Deletion/StillTerminating", FALSE, RequeueShort)
                                           ELSE Rejected(Result("Deletion/StillTerminating", FALSE, RequeueShort))) :
                               w1 \in BOOLEAN }
                      ELSE { Outcome(s, d.children, Result("Deletion/StillTerminating", FALSE, RequeueShort)) }
                 ELSE { DeletionQuota(
                            s, SetCond(s, ResourcesDeployed, ConditionFalse, AppWrapperTerminating),
                            d.children, TRUE, w1, w2) : w1 \in BOOLEAN, w2 \in BOOLEAN }
               : d \in deleteComponents(s, ch) }
    ELSE { DeletionQuota(s, s, ch, FALSE, w1, w2) : w1 \in BOOLEAN, w2 \in BOOLEAN }

\* ----------------------------------------------------------- phase switch
\* case AppWrapperEmpty: w1 is the outcome of r.Update, init that of
\* EnsureComponentStatusInitialized, w2 that of the status write.
\* case AppWrapperEmpty that goes on when r.Update fails.
ReconcileEmptyOutcomes_IgnoreUpdateError(s, ch) ==
    { LET s1 == IF w1 THEN Update(s, [s EXCEPT !.finalizer = TRUE]) ELSE s
      IN  IF ~init
          THEN Outcome(s1, ch, Result("Empty/InitFailed", TRUE, 0))
          ELSE updateStatus(s1, EnsureComponentStatusInitialized(s1), ch,
                            AppWrapperSuspended, w2, "Empty/Suspended")
      : w1 \in BOOLEAN, init \in BOOLEAN, w2 \in BOOLEAN }

ReconcileEmptyOutcomes(s, ch) ==
    { IF ~s.finalizer /\ ~w1
      THEN Outcome(s, ch, Rejected(Result("Empty/UpdateFailed", TRUE, 0)))
      ELSE LET s1 == Update(s, [s EXCEPT !.finalizer = TRUE])
           IN  IF ~init
               THEN Outcome(s1, ch, Result("Empty/InitFailed", TRUE, 0))
               ELSE updateStatus(s1, EnsureComponentStatusInitialized(s1), ch,
                                 AppWrapperSuspended, w2, "Empty/Suspended")
      : w1 \in BOOLEAN, init \in BOOLEAN, w2 \in BOOLEAN }

\* case AppWrapperSuspended
BeginDeployment(m) ==
    SetCond(SetCond(SetCond(SetCond(m,
        QuotaReserved, ConditionTrue, AppWrapperResuming),
        ResourcesDeployed, ConditionTrue, AppWrapperResuming),
        PodsReady, ConditionFalse, AppWrapperResuming),
        Unhealthy, ConditionFalse, AppWrapperResuming)

ReconcileSuspendedOutcomes(s, ch) ==
    IF s.suspend
    THEN { Outcome(s, ch, Result("Suspended/Remain", FALSE, 0)) }
    ELSE { updateStatus(s, BeginDeployment(s), ch, AppWrapperResuming, ok, "Suspended/Resuming") :
             ok \in BOOLEAN }

\* case AppWrapperResuming
\* createComponents returned an error: abort on a fatal error, else reset or fail.
\* A creation error handled without regard to fatal.
CreateFailed_AlwaysRetry(s, m, ch, fatal, ok) ==
    resetOrFail(s, m, ch, ok, "Resuming/CreateFailed")

\* A creation error always handled as fatal.
CreateFailed_NeverRetry(s, m, ch, fatal, ok) ==
    updateStatus(s, m, ch, AppWrapperFailed, ok, "Resuming/CreateFatal")

CreateFailed(s, m, ch, fatal, ok) ==
    IF fatal
    THEN updateStatus(s, m, ch, AppWrapperFailed, ok, "Resuming/CreateFatal")
    ELSE resetOrFail(s, m, ch, ok, "Resuming/CreateFailed")

\* case AppWrapperResuming that aborts a deployment straight to Suspended.
ReconcileResumingOutcomes_AbortToSuspended(s, ch) ==
    IF s.suspend
    THEN { updateStatus(s, s, ch, AppWrapperSuspended, ok, "Resuming/Suspend") : ok \in BOOLEAN }
    ELSE { WithCreate(
             IF c.result = CreateOK
             THEN updateStatus(s, s, c.children, AppWrapperRunning, ok, "Resuming/Running")
             ELSE CreateFailed(s, SetCond(s, Unhealthy, ConditionTrue, "CreateFailed"),
                               c.children, c.result = CreateFatal, ok),
             c.result)
           : c \in createComponents(s, ch), ok \in BOOLEAN }

ReconcileResumingOutcomes(s, ch) ==
    IF s.suspend
    THEN { updateStatus(s, s, ch, AppWrapperSuspending, ok, "Resuming/Suspend") : ok \in BOOLEAN }
    ELSE { WithCreate(
             IF c.result = CreateOK
             THEN updateStatus(s, s, c.children, AppWrapperRunning, ok, "Resuming/Running")
             ELSE CreateFailed(s, SetCond(s, Unhealthy, ConditionTrue, "CreateFailed"),
                               c.children, c.result = CreateFatal, ok),
             c.result)
           : c \in createComponents(s, ch), ok \in BOOLEAN }


\* Handle Success: the test on the pod summary
\* The success test that wants at least one expected pod.
PodsSucceeded_NeedsPods(ps) ==
    /\ ps.expected > 0
    /\ ps.succeeded >= ps.expected /\ ps.pending + ps.running + ps.failed = 0

\* The success test without the failed pods.
PodsSucceeded_IgnoreFailed(ps) ==
    ps.succeeded >= ps.expected /\ ps.pending + ps.running = 0

PodsSucceeded(ps) ==
    ps.succeeded >= ps.expected /\ ps.pending + ps.running + ps.failed = 0

\* Detect externally deleted components: Failed with no grace period or retry
\* A missing component handled as the other failures are, through resetOrFail.
MissingComponent_Retry(s, m, ch, ok) ==
    resetOrFail(s, SetCond(m, Unhealthy, ConditionTrue, "MissingComponent"),
                ch, ok, "Running/MissingComponent")

\* A missing component that fails the workload without recording Unhealthy.
MissingComponent_Unrecorded(s, m, ch, ok) ==
    updateStatus(s, m, ch, AppWrapperFailed, ok, "Running/MissingComponent")

MissingComponent(s, m, ch, ok) ==
    updateStatus(s, SetCond(m, Unhealthy, ConditionTrue, "MissingComponent"),
                 ch, AppWrapperFailed, ok, "Running/MissingComponent")

\* case AppWrapperRunning, after the component check: ps is the pod summary.
\* The pod check that looks at the failed pods only when the running and
\* succeeded pods are too few.
RunningPods_ReadyBeforeFailed(s, m, ch, ps, ok) ==
    IF PodsSucceeded(ps)
    THEN \* Handle Success
         updateStatus(s,
             SetCond(SetCond(m, QuotaReserved, ConditionFalse, AppWrapperSucceeded),
                     ResourcesDeployed, ConditionTrue, AppWrapperSucceeded),
             ch, AppWrapperSucceeded, ok, "Running/Succeeded")
    ELSE IF ps.running + ps.succeeded >= ps.expected
    THEN requeueWithUpdate(s,
             SetCond(ClearCond(m, Unhealthy, "FoundNoFailedPods"),
                     PodsReady, ConditionTrue, "SufficientPodsReady"),
             ch, RequeueMinute, ok, "Running/PodsReady")
    ELSE IF ps.failed > 0
    THEN \* Handle Failed Pods
         LET m1 == SetCond(m, Unhealthy, ConditionTrue, "FoundFailedPods")
             sinceDetected == m1.conditions[Unhealthy].age
             gracePeriod == failureGraceDuration(m1)
         IN  IF sinceDetected < gracePeriod  \* now.Before(deadline)
             THEN requeueWithUpdate(s, m1, ch, gracePeriod - sinceDetected, ok,
                                    "Running/FailedPodsGrace")
             ELSE resetOrFail(s, m1, ch, ok, "Running/FoundFailedPods")
    ELSE LET m2 == ClearCond(ClearCond(m, Unhealthy, "FoundNoFailedPods"),
                             PodsReady, "InsufficientPodsReady")
             sinceDeployed == m2.conditions[ResourcesDeployed].age
             graceDuration ==
                 IF ps.pending + ps.running + ps.succeeded >= ps.expected
                 THEN warmupGraceDuration(m2)
                 ELSE admissionGraceDuration(m2)
         IN  IF m2.conditions[ResourcesDeployed].status = ConditionAbsent
             THEN Outcome(s, ch, Result("panic", TRUE, 0))
             ELSE IF sinceDeployed < graceDuration
             THEN requeueWithUpdate(s, m2, ch, RequeueShort, ok, "Running/NotReadyGrace")
             ELSE resetOrFail(s,
                      SetCond(m2, Unhealthy, ConditionTrue, "InsufficientPodsReady"),
                      ch, ok, "Running/InsufficientPodsReady")

\* The pod check that waits the admission grace period whatever the pending pods.
RunningPods_AdmissionGraceOnly(s, m, ch, ps, ok) ==
    IF PodsSucceeded(ps)
    THEN \* Handle Success
         updateStatus(s,
             SetCond(SetCond(m, QuotaReserved, ConditionFalse, AppWrapperSucceeded),
                     ResourcesDeployed, ConditionTrue, AppWrapperSucceeded),
             ch, AppWrapperSucceeded, ok, "Running/Succeeded")
    ELSE IF ps.failed > 0
    THEN \* Handle Failed Pods
         LET m1 == SetCond(m, Unhealthy, ConditionTrue, "FoundFailedPods")
             sinceDetected == m1.conditions[Unhealthy].age
             gracePeriod == failureGraceDuration(m1)
         IN  IF sinceDetected < gracePeriod  \* now.Before(deadline)
             THEN requeueWithUpdate(s, m1, ch, gracePeriod - sinceDetected, ok,
                                    "Running/FailedPodsGrace")
             ELSE resetOrFail(s, m1, ch, ok, "Running/FoundFailedPods")
    ELSE LET m1 == ClearCond(m, Unhealthy, "FoundNoFailedPods")
         IN  IF ps.running + ps.succeeded >= ps.expected
             THEN requeueWithUpdate(s,
                      SetCond(m1, PodsReady, ConditionTrue, "SufficientPodsReady"),
                      ch, RequeueMinute, ok, "Running/PodsReady")
             ELSE \* Not ready yet
                  LET m2 == ClearCond(m1, PodsReady, "InsufficientPodsReady")
                      sinceDeployed == m2.conditions[ResourcesDeployed].age
                      graceDuration == admissionGraceDuration(m2)
                  IN  IF m2.conditions[ResourcesDeployed].status = ConditionAbsent
                      THEN Outcome(s, ch, Result("panic", TRUE, 0))
                      ELSE IF sinceDeployed < graceDuration
                      THEN requeueWithUpdate(s, m2, ch, RequeueShort, ok, "Running/NotReadyGrace")
                      ELSE resetOrFail(s,
                               SetCond(m2, Unhealthy, ConditionTrue, "InsufficientPodsReady"),
                               ch, ok, "Running/InsufficientPodsReady")

RunningPods(s, m, ch, ps, ok) ==
    IF PodsSucceeded(ps)
    THEN \* Handle Success
         updateStatus(s,
             SetCond(SetCond(m, QuotaReserved, ConditionFalse, AppWrapperSucceeded),
                     ResourcesDeployed, ConditionTrue, AppWrapperSucceeded),
             ch, AppWrapperSucceeded, ok, "Running/Succeeded")
    ELSE IF ps.failed > 0
    THEN \* Handle Failed Pods
         LET m1 == SetCond(m, Unhealthy, ConditionTrue, "FoundFailedPods")
             sinceDetected == m1.conditions[Unhealthy].age
             gracePeriod == failureGraceDuration(m1)
         IN  IF sinceDetected < gracePeriod  \* now.Before(deadline)
             THEN requeueWithUpdate(s, m1, ch, gracePeriod - sinceDetected, ok,
                                    "Running/FailedPodsGrace")
             ELSE resetOrFail(s, m1, ch, ok, "Running/FoundFailedPods")
    ELSE LET m1 == ClearCond(m, Unhealthy, "FoundNoFailedPods")
         IN  IF ps.running + ps.succeeded >= ps.expected
             THEN requeueWithUpdate(s,
                      SetCond(m1, PodsReady, ConditionTrue, "SufficientPodsReady"),
                      ch, RequeueMinute, ok, "Running/PodsReady")
             ELSE \* Not ready yet
                  LET m2 == ClearCond(m1, PodsReady, "InsufficientPodsReady")
                      sinceDeployed == m2.conditions[ResourcesDeployed].age
                      graceDuration ==
                          IF ps.pending + ps.running + ps.succeeded >= ps.expected
                          THEN warmupGraceDuration(m2)
                          ELSE admissionGraceDuration(m2)
                  IN  IF m2.conditions[ResourcesDeployed].status = ConditionAbsent
                      THEN Outcome(s, ch, Result("panic", TRUE, 0))
                      ELSE IF sinceDeployed < graceDuration
                      THEN requeueWithUpdate(s, m2, ch, RequeueShort, ok, "Running/NotReadyGrace")
                      ELSE resetOrFail(s,
                               SetCond(m2, Unhealthy, ConditionTrue, "InsufficientPodsReady"),
                               ch, ok, "Running/InsufficientPodsReady")

\* case AppWrapperRunning: compErr and podErr say that getComponentStatus and
\* getPodStatus return an error, pods is the listing's count of pods by phase.
\* case AppWrapperRunning without the test of aw.Spec.Suspend.
ReconcileRunningOutcomes_IgnoreSuspend(s, ch) ==
    { Outcome(s, ch, Result("Running/ComponentStatusError", TRUE, 0)) }
    \cup
    LET compStatus == getComponentStatusSummary(s, ch)
        m == getComponentStatusMarks(s, ch)
    IN  IF compStatus.deployed # compStatus.expected
        THEN { MissingComponent(s, m, ch, ok) : ok \in BOOLEAN }
        ELSE { Outcome(s, ch, Result("Running/PodStatusError", TRUE, 0)) }
             \cup { WithPods(RunningPods(s, m, ch, getPodStatus(m, pods), ok),
                             getPodStatus(m, pods)) :
                      pods \in PodCounts, ok \in BOOLEAN }

ReconcileRunningOutcomes(s, ch) ==
    IF s.suspend
    THEN { updateStatus(s, s, ch, AppWrapperSuspending, ok, "Running/Suspend") : ok \in BOOLEAN }
    ELSE { Outcome(s, ch, Result("Running/ComponentStatusError", TRUE, 0)) }
         \cup
         LET compStatus == getComponentStatusSummary(s, ch)
             m == getComponentStatusMarks(s, ch)
         IN  IF compStatus.deployed # compStatus.expected
             THEN { MissingComponent(s, m, ch, ok) : ok \in BOOLEAN }
             ELSE { Outcome(s, ch, Result("Running/PodStatusError", TRUE, 0)) }
                  \cup { WithPods(RunningPods(s, m, ch, getPodStatus(m, pods), ok),
                                  getPodStatus(m, pods)) :
                           pods \in PodCounts, ok \in BOOLEAN }

\* case AppWrapperSuspending
\* The end of Suspending without clearCondition(aw, Unhealthy, ...).
FinishSuspending_KeepUnhealthy(s, m, ch, ok) ==
    updateStatus(s,
        ClearCond(SetCond(m, QuotaReserved, ConditionFalse, AppWrapperSuspended),
                  PodsReady, AppWrapperSuspended),
        ch, AppWrapperSuspended, ok, "Suspending/Suspended")

\* The end of Suspending that gives the workload its retry budget back.
FinishSuspending_ResetRetries(s, m, ch, ok) ==
    updateStatus(s,
        ClearCond(ClearCond(SetCond([m EXCEPT !.retries = 0],
            QuotaReserved, ConditionFalse, AppWrapperSuspended),
            PodsReady, AppWrapperSuspended),
            Unhealthy, AppWrapperSuspended),
        ch, AppWrapperSuspended, ok, "Suspending/Suspended")

FinishSuspending(s, m, ch, ok) ==
    updateStatus(s,
        ClearCond(ClearCond(SetCond(m,
            QuotaReserved, ConditionFalse, AppWrapperSuspended),
            PodsReady, AppWrapperSuspended),
            Unhealthy, AppWrapperSuspended),
        ch, AppWrapperSuspended, ok, "Suspending/Suspended")

\* case AppWrapperSuspending that does not wait for the children to be gone.
ReconcileSuspendingOutcomes_NoWait(s, ch) ==
    IF IsStatusConditionTrue(s.conditions, ResourcesDeployed)
    THEN { FinishSuspending(
               s, SetCond(s, ResourcesDeployed, ConditionFalse, AppWrapperSuspended),
               d.children, ok) : d \in deleteComponents(s, ch), ok \in BOOLEAN }
    ELSE { FinishSuspending(s, s, ch, ok) : ok \in BOOLEAN }

\* case AppWrapperSuspending that goes back to Running when suspend is false.
ReconcileSuspendingOutcomes_HonourResume(s, ch) ==
    IF ~s.suspend
    THEN { updateStatus(s, s, ch, AppWrapperRunning, ok, "Suspending/Resume") : ok \in BOOLEAN }
    ELSE IF IsStatusConditionTrue(s.conditions, ResourcesDeployed)
    THEN UNION { IF ~d.allGone
                 THEN { Outcome(s, d.children, Result("Suspending/StillDeleting", FALSE, RequeueShort)) }
                 ELSE { FinishSuspending(
                            s, SetCond(s, ResourcesDeployed, ConditionFalse, AppWrapperSuspended),
                            d.children, ok) : ok \in BOOLEAN }
               : d \in deleteComponents(s, ch) }
    ELSE { FinishSuspending(s, s, ch, ok) : ok \in BOOLEAN }

ReconcileSuspendingOutcomes(s, ch) ==
    IF IsStatusConditionTrue(s.conditions, ResourcesDeployed)
    THEN UNION { IF ~d.allGone
                 THEN { Outcome(s, d.children, Result("Suspending/StillDeleting", FALSE, RequeueShort)) }
                 ELSE { FinishSuspending(
                            s, SetCond(s, ResourcesDeployed, ConditionFalse, AppWrapperSuspended),
                            d.children, ok) : ok \in BOOLEAN }
               : d \in deleteComponents(s, ch) }
    ELSE { FinishSuspending(s, s, ch, ok) : ok \in BOOLEAN }

\* case AppWrapperResetting, after the children are gone
\* The end of Resetting without setting ResourcesDeployed back to true.
ResettingPause_NoRedeploy(s, m, ch, ok) ==
    IF m.conditions[Unhealthy].age < retryPauseDuration(m)
    THEN requeueWithUpdate(s, m, ch, retryPauseDuration(m) - m.conditions[Unhealthy].age,
                           ok, "Resetting/Pause")
    ELSE updateStatus(s, m, ch, AppWrapperResuming, ok, "Resetting/Resuming")

\* The end of Resetting without the pause before Resuming.
ResettingPause_NoPause(s, m, ch, ok) ==
    updateStatus(s, SetCond(m, ResourcesDeployed, ConditionTrue, AppWrapperResuming),
                 ch, AppWrapperResuming, ok, "Resetting/Resuming")

ResettingPause(s, m, ch, ok) ==
    IF m.conditions[Unhealthy].status = ConditionAbsent
    THEN Outcome(s, ch, Result("panic", TRUE, 0))
    ELSE LET sinceReset == m.conditions[Unhealthy].age
             pauseDuration == retryPauseDuration(m)
         IN  IF sinceReset < pauseDuration  \* now.Before(deadline)
             THEN requeueWithUpdate(s, m, ch, pauseDuration - sinceReset, ok, "Resetting/Pause")
             ELSE updateStatus(s,
                      SetCond(m, ResourcesDeployed, ConditionTrue, AppWrapperResuming),
                      ch, AppWrapperResuming, ok, "Resetting/Resuming")

\* case AppWrapperResetting that clears PodsReady before it tests aw.Spec.Suspend.
ReconcileResettingOutcomes_ClearFirst(s, ch) ==
    IF s.suspend
    THEN { updateStatus(s, ClearCond(s, PodsReady, AppWrapperResetting), ch,
                        AppWrapperSuspending, ok, "Resetting/Suspend") : ok \in BOOLEAN }
    ELSE LET m == ClearCond(s, PodsReady, AppWrapperResetting)
         IN  IF IsStatusConditionTrue(m.conditions, ResourcesDeployed)
             THEN UNION { IF ~d.allGone
                          THEN { Outcome(s, d.children,
                                         Result("Resetting/StillDeleting", FALSE, RequeueShort)) }
                          ELSE { ResettingPause(
                                     s, SetCond(m, ResourcesDeployed, ConditionFalse,
                                                AppWrapperResetting),
                                     d.children, ok) : ok \in BOOLEAN }
                        : d \in deleteComponents(m, ch) }
             ELSE { ResettingPause(s, m, ch, ok) : ok \in BOOLEAN }

ReconcileResettingOutcomes(s, ch) ==
    IF s.suspend
    THEN { updateStatus(s, s, ch, AppWrapperSuspending, ok, "Resetting/Suspend") : ok \in BOOLEAN }
    ELSE LET m == ClearCond(s, PodsReady, AppWrapperResetting)
         IN  IF IsStatusConditionTrue(m.conditions, ResourcesDeployed)
             THEN UNION { IF ~d.allGone
                          THEN { Outcome(s, d.children,
                                         Result("Resetting/StillDeleting", FALSE, RequeueShort)) }
                          ELSE { ResettingPause(
                                     s, SetCond(m, ResourcesDeployed, ConditionFalse,
                                                AppWrapperResetting),
                                     d.children, ok) : ok \in BOOLEAN }
                        : d \in deleteComponents(m, ch) }
             ELSE { ResettingPause(s, m, ch, ok) : ok \in BOOLEAN }

\* case AppWrapperFailed, from the check of ResourcesDeployed on
\* The cleanup of Failed that yields to a suspension once the children are gone.
FailedCleanup_ToSuspended(s, m, ch, ok) ==
    LET done(m1, c) ==
            updateStatus(s, SetCond(m1, QuotaReserved, ConditionFalse, AppWrapperFailed),
                         c, IF s.suspend THEN AppWrapperSuspended ELSE AppWrapperFailed,
                         ok, "Failed/Cleanup")
    IN  IF IsStatusConditionTrue(m.conditions, ResourcesDeployed)
        THEN { IF ~d.allGone
               THEN Outcome(s, d.children, Result("Failed/StillDeleting", FALSE, RequeueShort))
               ELSE done(SetCond(m, ResourcesDeployed, ConditionFalse, AppWrapperFailed),
                         d.children)
               : d \in deleteComponents(m, ch) }
        ELSE { done(m, ch) }

\* The cleanup of Failed that returns once ResourcesDeployed=false is written
\* and releases the quota in the invocation after.
FailedCleanup_InTwoWrites(s, m, ch, ok) ==
    IF IsStatusConditionTrue(m.conditions, ResourcesDeployed)
    THEN { IF ~d.allGone
           THEN Outcome(s, d.children, Result("Failed/StillDeleting", FALSE, RequeueShort))
           ELSE requeueWithUpdate(s,
                    SetCond(m, ResourcesDeployed, ConditionFalse, AppWrapperFailed),
                    d.children, 0, ok, "Failed/Cleanup")
           : d \in deleteComponents(m, ch) }
    ELSE { requeueWithUpdate(s,
               SetCond(m, QuotaReserved, ConditionFalse, AppWrapperFailed),
               ch, 0, ok, "Failed/Cleanup") }

FailedCleanup(s, m, ch, ok) ==
    LET done(m1, c) ==
            requeueWithUpdate(s,
                SetCond(m1, QuotaReserved, ConditionFalse, AppWrapperFailed),
                c, 0, ok, "Failed/Cleanup")
    IN  IF IsStatusConditionTrue(m.conditions, ResourcesDeployed)
        THEN { IF ~d.allGone
               THEN Outcome(s, d.children, Result("Failed/StillDeleting", FALSE, RequeueShort))
               ELSE done(SetCond(m, ResourcesDeployed, ConditionFalse, AppWrapperFailed),
                         d.children)
               : d \in deleteComponents(m, ch) }
        ELSE { done(m, ch) }

\* case AppWrapperFailed that holds the resources for the delay also when the
\* workload is suspended.
ReconcileFailedOutcomes_PauseWhenSuspended(s, ch) ==
    LET deletionDelay == deletionOnFailureGraceDuration(s)
    IN  IF deletionDelay > 0
        THEN LET m == SetCond(s, DeletingResources, ConditionFalse, "DeletionPaused")
                 sinceDelayed == m.conditions[DeletingResources].age
             IN  IF sinceDelayed < deletionDelay
                 THEN { requeueWithUpdate(s, m, ch, deletionDelay - sinceDelayed, ok,
                                          "Failed/DeletionPaused") :
                          ok \in BOOLEAN }
                 ELSE UNION { FailedCleanup(s, m, ch, ok) : ok \in BOOLEAN }
        ELSE UNION { FailedCleanup(s, s, ch, ok) : ok \in BOOLEAN }

ReconcileFailedOutcomes(s, ch) ==
    LET deletionDelay == deletionOnFailureGraceDuration(s)
    IN  IF deletionDelay > 0 /\ ~s.suspend
        THEN LET m == SetCond(s, DeletingResources, ConditionFalse, "DeletionPaused")
                 sinceDelayed == m.conditions[DeletingResources].age
             IN  IF sinceDelayed < deletionDelay  \* now.Before(deadline)
                 THEN { requeueWithUpdate(s, m, ch, deletionDelay - sinceDelayed, ok,
                                          "Failed/DeletionPaused") :
                          ok \in BOOLEAN }
                 ELSE UNION { FailedCleanup(s, m, ch, ok) : ok \in BOOLEAN }
        ELSE UNION { FailedCleanup(s, s, ch, ok) : ok \in BOOLEAN }

\* case AppWrapperSucceeded
\* case AppWrapperSucceeded that keeps requeueing once the time to live is over.
ReconcileSucceededOutcomes_NoCleanup(s, ch) ==
    IF IsStatusConditionTrue(s.conditions, ResourcesDeployed)
    THEN { requeueWithUpdate(s, s, ch, RequeueShort, ok, "Succeeded/TimeToLive") :
             ok \in BOOLEAN }
    ELSE { Outcome(s, ch, Result("Succeeded/Done", FALSE, 0)) }

ReconcileSucceededOutcomes(s, ch) ==
    IF IsStatusConditionTrue(s.conditions, ResourcesDeployed)
    THEN LET deletionDelay == timeToLiveAfterSucceededDuration(s)
             sinceSucceeded == s.conditions[ResourcesDeployed].age
         IN  IF sinceSucceeded < deletionDelay  \* now.Before(deadline)
             THEN { requeueWithUpdate(s, s, ch, deletionDelay - sinceSucceeded, ok,
                                      "Succeeded/TimeToLive") :
                      ok \in BOOLEAN }
             ELSE { IF ~d.allGone
                    THEN Outcome(s, d.children, Result("Succeeded/StillDeleting", FALSE, RequeueShort))
                    ELSE requeueWithUpdate(s,
                             SetCond(s, ResourcesDeployed, ConditionFalse, AppWrapperSucceeded),
                             d.children, 0, ok, "Succeeded/Cleanup")
                    : d \in deleteComponents(s, ch), ok \in BOOLEAN }
    ELSE { Outcome(s, ch, Result("Succeeded/Done", FALSE, 0)) }


\* Reconcile, from the object it read: the set of its possible outcomes.
ReconcileOutcomes(s, ch) ==
    IF s.deletionTimestamp
    THEN ReconcileDeletionOutcomes(s, ch)
    ELSE CASE s.phase = AppWrapperEmpty -> ReconcileEmptyOutcomes(s, ch)
           [] s.phase = AppWrapperSuspended -> ReconcileSuspendedOutcomes(s, ch)
           [] s.phase = AppWrapperResuming -> ReconcileResumingOutcomes(s, ch)
           [] s.phase = AppWrapperRunning -> ReconcileRunningOutcomes(s, ch)
           [] s.phase = AppWrapperSuspending -> ReconcileSuspendingOutcomes(s, ch)
           [] s.phase = AppWrapperResetting -> ReconcileResettingOutcomes(s, ch)
           [] s.phase = AppWrapperFailed -> ReconcileFailedOutcomes(s, ch)
           [] s.phase = AppWrapperSucceeded -> ReconcileSucceededOutcomes(s, ch)
           [] OTHER -> { Outcome(s, ch, Result("NoCase", FALSE, 0)) }

\* ------------------------------------------------------------------ state
NoAnnotations == [k \in AnnotationKeys |-> Absent]

\* A workload as created: no phase, no condition, no componentStatus record.
NewAppWrapper(suspend, expectedPods, annotations) ==
    [exists |-> TRUE, deletionTimestamp |-> FALSE, finalizer |-> FALSE,
     suspend |-> suspend, expectedPods |-> expectedPods, annotations |-> annotations,
     phase |-> AppWrapperEmpty, conditions |-> [c \in ConditionTypes |-> NoCondition],
     retries |-> 0, componentStatus |-> << >>]

\* A configuration of the operator with the given default retry limit.
FaultTolerance(limit) ==
    [AdmissionGracePeriod |-> 1, WarmupGracePeriod |-> 2, FailureGracePeriod |-> 1,
     RetryPausePeriod |-> 1, ForcefulDeletionGracePeriod |-> 1,
     GracePeriodMaximum |-> 2, SuccessTTL |-> 1, RetryLimit |-> limit]

\* Retry-limit annotation and configured default: no annotation or one that does
\* not parse, with each default; an annotation below, at and above the default;
\* a negative annotation.
RetrySettings ==
    { << Absent, d >> : d \in 0..MaxRetryLimit }
    \cup { << Malformed, d >> : d \in { MaxRetryLimit } }
    \cup { << Value(n), MaxRetryLimit - n >> : n \in 0..MaxRetryLimit }
    \cup { << Value(-1), MaxRetryLimit >> }

\* The workloads of the model, as << retry-limit annotation, configured retry
\* limit, deletion-on-failure annotation, expected pod count >>: every retry
\* setting, every expected pod count, and a deletion-on-failure delay.
Settings ==
    { << rs[1], rs[2], Absent, MaxPods >> : rs \in RetrySettings }
    \cup { << Absent, MaxRetryLimit, Absent, n >> : n \in 0..MaxPods }
    \cup { << Absent, MaxRetryLimit, Value(1), MaxPods >> }

Init ==
    \E st \in Settings :
        /\ aw = NewAppWrapper(TRUE, st[4],
                    [NoAnnotations EXCEPT ![RetryLimitAnnotation] = st[1],
                                          ![DeletionOnFailureGracePeriodAnnotation] = st[3]])
        /\ children = NoChildren
        /\ config = FaultTolerance(st[2])

Apply(o) ==
    /\ aw' = o.aw
    /\ children' = o.children
    /\ UNCHANGED config

\* ---------------------------------------------------------------- Reconcile
\* The object is gone: r.Get fails with not-found.
ReconcileNotFound ==
    /\ ~aw.exists
    /\ Apply(GetFailed(aw, children, TRUE))

\* r.Get fails although the object exists.
ReconcileGetError ==
    /\ aw.exists
    /\ Apply(GetFailed(aw, children, FALSE))

\* Reconcile reads an object that is marked for deletion.
ReconcileDeletion ==
    /\ aw.exists
    /\ aw.deletionTimestamp
    /\ \E o \in ReconcileOutcomes(aw, children) : Apply(o)

\* Reconcile reads an object in the given phase that is not marked for deletion.
Reads(phase) == aw.exists /\ ~aw.deletionTimestamp /\ aw.phase = phase

ReconcileEmpty ==
    /\ Reads(AppWrapperEmpty)
    /\ \E o \in ReconcileOutcomes(aw, children) : Apply(o)

ReconcileSuspended ==
    /\ Reads(AppWrapperSuspended)
    /\ \E o \in ReconcileOutcomes(aw, children) : Apply(o)

ReconcileResuming ==
    /\ Reads(AppWrapperResuming)
    /\ \E o \in ReconcileOutcomes(aw, children) : Apply(o)

ReconcileRunning ==
    /\ Reads(AppWrapperRunning)
    /\ \E o \in ReconcileOutcomes(aw, children) : Apply(o)

ReconcileSuspending ==
    /\ Reads(AppWrapperSuspending)
    /\ \E o \in ReconcileOutcomes(aw, children) : Apply(o)

ReconcileResetting ==
    /\ Reads(AppWrapperResetting)
    /\ \E o \in ReconcileOutcomes(aw, children) : Apply(o)

ReconcileFailed ==
    /\ Reads(AppWrapperFailed)
    /\ \E o \in ReconcileOutcomes(aw, children) : Apply(o)

ReconcileSucceeded ==
    /\ Reads(AppWrapperSucceeded)
    /\ \E o \in ReconcileOutcomes(aw, children) : Apply(o)

\* -------------------------------------------------------------- environment
\* The conditions whose LastTransitionTime the controller reads.
TimedConditions == { ResourcesDeployed, Unhealthy, DeletingResources }

\* No duration is longer than the longest of the grace period maximum and the
\* success time to live: a condition that old does not age further.
MaxAge == IF config.SuccessTTL > config.GracePeriodMaximum
          THEN config.SuccessTTL ELSE config.GracePeriodMaximum

Older(c) ==
    IF c.status # ConditionAbsent /\ c.age < MaxAge THEN [c EXCEPT !.age = @ + 1] ELSE c

\* The age of a condition is followed while it can be read.  The controller
\* reads the transition time of ResourcesDeployed and of Unhealthy only while
\* the condition is true, and that of DeletingResources in Failed; the time
\* since the workload succeeded is the age of QuotaReserved while the phase is
\* Succeeded and the children are kept.  The deletion path reads no transition
\* time.
Ages(a, c) ==
    /\ ~a.deletionTimestamp
    /\ \/ /\ c \in TimedConditions
          /\ c = DeletingResources \/ a.conditions[c].status = ConditionTrue
       \/ /\ c = QuotaReserved
          /\ a.phase = AppWrapperSucceeded
          /\ a.conditions[ResourcesDeployed].status = ConditionTrue

\* A second passes.
Tick ==
    /\ aw.exists
    /\ aw' = [aw EXCEPT !.conditions =
                 [c \in ConditionTypes |-> IF Ages(aw, c) THEN Older(@[c]) ELSE @[c]]]
    /\ UNCHANGED << children, config >>

\* The tenant or the queuing system flips spec.suspend.
SetSuspend ==
    /\ aw.exists
    /\ aw' = [aw EXCEPT !.suspend = ~@]
    /\ UNCHANGED << children, config >>

\* The workload is marked for deletion; without a finalizer it is removed at once.
MarkDeleted ==
    /\ aw.exists
    /\ ~aw.deletionTimestamp
    /\ aw' = [aw EXCEPT !.deletionTimestamp = TRUE, !.exists = aw.finalizer]
    /\ UNCHANGED << children, config >>

\* A child that was terminating is gone.
ChildGone ==
    \E i \in Components :
        /\ children[i] = ChildTerminating
        /\ children' = [children EXCEPT ![i] = ChildAbsent]
        /\ UNCHANGED << aw, config >>

\* Someone other than the controller deletes a child.
ChildDeletedExternally ==
    \E i \in Components :
        /\ children[i] = ChildPresent
        /\ children' = [children EXCEPT ![i] = ChildTerminating]
        /\ UNCHANGED << aw, config >>

Next ==
    \/ ReconcileNotFound
    \/ ReconcileGetError
    \/ ReconcileDeletion
    \/ ReconcileEmpty
    \/ ReconcileSuspended
    \/ ReconcileResuming
    \/ ReconcileRunning
    \/ ReconcileSuspending
    \/ ReconcileResetting
    \/ ReconcileFailed
    \/ ReconcileSucceeded
    \/ Tick
    \/ SetSuspend
    \/ MarkDeleted
    \/ ChildGone
    \/ ChildDeletedExternally

Spec == Init /\ [][Next]_vars

\* The same behaviours, for the properties that compare an invocation of
\* Reconcile with the invocation that follows it on the state it persisted.
SpecTwice == Init /\ [][Next]_vars

\* An invocation of Reconcile that returns no error: its writes succeeded.
ReconcileCommits ==
    /\ aw.exists
    /\ \E o \in ReconcileOutcomes(aw, children) : ~o.result.err /\ Apply(o)

\* The dispatcher invokes Reconcile again after an error (with backoff), after
\* a requeue and after a change of the workload or of a child, so an
\* invocation whose writes succeed comes in the end; time passes; and a child
\* that is terminating goes away.
\* The workloads under the fair dispatcher: the configured retry limit, with
\* and without a deletion-on-failure delay.
InitFair ==
    \E delay \in { Absent, Value(1) } :
        /\ aw = NewAppWrapper(TRUE, MaxPods,
                    [NoAnnotations EXCEPT ![DeletionOnFailureGracePeriodAnnotation] = delay])
        /\ children = NoChildren
        /\ config = FaultTolerance(MaxRetryLimit)

FairSpec ==
    /\ InitFair
    /\ [][Next]_vars
    /\ WF_vars(ReconcileCommits)
    /\ WF_vars(Tick)
    /\ WF_vars(ChildGone)

\* ------------------------------------------- component creation that fails
\* Workloads that are never suspended and never deleted, with the retry limit
\* given by the configuration or by annotation, in a cluster where every call
\* of createComponents returns a non-fatal error.
CreateAlwaysFails(o) == o.result.create \in { NotCalled, CreateError }

InitCreateFails ==
    \E n \in 0..MaxScenarioRetries, byAnnotation \in BOOLEAN :
        /\ aw = NewAppWrapper(FALSE, MaxPods,
                    [NoAnnotations EXCEPT ![RetryLimitAnnotation] =
                        IF byAnnotation THEN Value(n) ELSE Absent])
        /\ children = NoChildren
        /\ config = FaultTolerance(IF byAnnotation THEN 0 ELSE n)

\* An invocation of Reconcile, with any outcome of its writes.
ReconcileCreateFails ==
    /\ aw.exists
    /\ \E o \in ReconcileOutcomes(aw, children) : CreateAlwaysFails(o) /\ Apply(o)

\* An invocation of Reconcile that returns no error.
ReconcileCreateFailsCommits ==
    /\ aw.exists
    /\ \E o \in ReconcileOutcomes(aw, children) :
          CreateAlwaysFails(o) /\ ~o.result.err /\ Apply(o)

NextCreateFails ==
    \/ ReconcileCreateFails
    \/ Tick
    \/ ChildGone

\* The dispatcher invokes Reconcile again after an error and after a requeue,
\* a write that is retried succeeds in the end, time passes and a child that
\* is terminating goes away.
SpecCreateFails ==
    /\ InitCreateFails
    /\ [][NextCreateFails]_vars
    /\ WF_vars(ReconcileCreateFailsCommits)
    /\ WF_vars(Tick)
    /\ WF_vars(ChildGone)

\* ------------------------------------------------- the resolved durations
\* The grace-policy evaluator on its own: every configuration of the default
\* durations, of the maximum and of the success time to live, and a workload
\* whose annotations are edited.
Overrides == { Absent, Malformed } \cup { Value(n) : n \in -1..(MaxDuration + 1) }

\* A configuration with the maximum max, the success time to live ttl and
\* defaults that differ from one duration to the next, starting at d.
DurationSettings(d, max, ttl) ==
    [AdmissionGracePeriod |-> d % (MaxDuration + 1),
     WarmupGracePeriod |-> (d + 1) % (MaxDuration + 1),
     FailureGracePeriod |-> (d + 2) % (MaxDuration + 1),
     RetryPausePeriod |-> (2 * d) % (MaxDuration + 1),
     ForcefulDeletionGracePeriod |-> (2 * d + 1) % (MaxDuration + 1),
     GracePeriodMaximum |-> max, SuccessTTL |-> ttl, RetryLimit |-> 0]

InitDurations ==
    \E d \in 0..MaxDuration, max \in 0..MaxDuration, ttl \in 0..MaxDuration :
        /\ aw = NewAppWrapper(TRUE, 0, NoAnnotations)
        /\ children = NoChildren
        /\ config = DurationSettings(d, max, ttl)

\* The tenant sets one annotation of the workload and removes the others.
Annotate ==
    \E key \in AnnotationKeys \ { RetryLimitAnnotation }, v \in Overrides :
        /\ aw' = [aw EXCEPT !.annotations = [NoAnnotations EXCEPT ![key] = v]]
        /\ UNCHANGED << children, config >>

NextDurations == Annotate

SpecDurations == InitDurations /\ [][NextDurations]_vars

TypeOK ==
    /\ aw.phase \in Phases
    /\ children \in [Components -> ChildStates]

\* ------------------------------------------------------------------ claims
\* The outcomes of an invocation of Reconcile whose Get reads the object as it
\* is persisted now.
Invocations == IF aw.exists THEN ReconcileOutcomes(aw, children) ELSE {}

IsTrue(a, type) == a.conditions[type].status = ConditionTrue

\* The retry limit in force: the retry-limit annotation when it parses as an
\* integer, otherwise the configured default.
LimitInForce ==
    IF aw.annotations[RetryLimitAnnotation].kind = "value"
    THEN aw.annotations[RetryLimitAnnotation].value
    ELSE config.RetryLimit

\* The places resetOrFail is called from.
ResetOrFailBranches ==
    { "Resuming/CreateFailed", "Running/FoundFailedPods", "Running/InsufficientPodsReady" }

\* C1: status.retries is at most the retry limit in force when that limit is
\* not negative; an invocation changes retries only by adding one, with
\* retries < limit before, on its way to Resetting; and a resetOrFail that
\* finds retries >= limit commits Failed and leaves retries as they are.
C1_RetriesWithinLimit ==
    /\ LimitInForce >= 0 => aw.retries <= LimitInForce
    /\ \A o \in Invocations :
          /\ o.aw.retries # aw.retries =>
                /\ aw.retries < LimitInForce
                /\ o.aw.retries = aw.retries + 1
                /\ o.aw.phase = AppWrapperResetting
          /\ (o.result.branch \in ResetOrFailBranches /\ ~o.result.err
                /\ aw.retries >= LimitInForce) =>
                o.aw.phase = AppWrapperFailed /\ o.aw.retries = aw.retries

\* The retries have reached a limit given by annotation, and a further failure
\* of the pods has moved the workload to Failed.
C1_Witness ==
    /\ aw.annotations[RetryLimitAnnotation].kind = "value"
    /\ LimitInForce > 0
    /\ LimitInForce # config.RetryLimit
    /\ aw.retries = LimitInForce
    /\ aw.phase = AppWrapperFailed
    /\ aw.conditions[Unhealthy].reason = "FoundFailedPods"

\* C2: while a child resource exists the workload exists and carries the
\* finalizer, and an invocation removes the finalizer only from a workload
\* marked for deletion and only when it leaves no child behind.
C2_FinalizerGuardsChildren ==
    /\ ChildExists(children) => aw.exists /\ aw.finalizer
    /\ \A o \in Invocations :
          (aw.finalizer /\ ~o.aw.finalizer) =>
              aw.deletionTimestamp /\ ~ChildExists(o.children)

\* The workload is marked for deletion, a child is still terminating and the
\* finalizer is held.
C2_Witness ==
    /\ aw.deletionTimestamp
    /\ aw.phase = AppWrapperTerminating
    /\ \E i \in Components : children[i] = ChildTerminating
    /\ aw.finalizer

\* C3: while the persisted ResourcesDeployed is not true no child exists; an
\* invocation creates a child only in Resuming with ResourcesDeployed persisted
\* as true, and it commits ResourcesDeployed away from true only when it leaves
\* no child behind.
C3_NoChildUnlessDeployed ==
    /\ ~IsTrue(aw, ResourcesDeployed) => ~ChildExists(children)
    /\ \A o \in Invocations :
          /\ (\E i \in Components : children[i] = ChildAbsent /\ o.children[i] # ChildAbsent) =>
                aw.phase = AppWrapperResuming /\ IsTrue(aw, ResourcesDeployed)
          /\ (IsTrue(aw, ResourcesDeployed) /\ ~IsTrue(o.aw, ResourcesDeployed)) =>
                ~ChildExists(o.children)

\* The children of a deployment that failed were deleted for a reset, and
\* ResourcesDeployed is false while the retry pause runs.
C3_Witness ==
    /\ aw.phase = AppWrapperResetting
    /\ aw.conditions[ResourcesDeployed].status = ConditionFalse
    /\ aw.conditions[ResourcesDeployed].reason = AppWrapperResetting
    /\ ~ChildExists(children)

\* C4: while the persisted phase is Suspended, none of QuotaReserved,
\* ResourcesDeployed, PodsReady and Unhealthy is true.
C4_SuspendedHoldsNothing ==
    aw.phase = AppWrapperSuspended =>
        \A c \in { QuotaReserved, ResourcesDeployed, PodsReady, Unhealthy } : ~IsTrue(aw, c)

\* Suspended was entered from Suspending after a deployment that had become
\* unhealthy.
C4_Witness ==
    /\ aw.phase = AppWrapperSuspended
    /\ aw.conditions[QuotaReserved].status = ConditionFalse
    /\ aw.conditions[ResourcesDeployed].status = ConditionFalse
    /\ aw.conditions[Unhealthy].reason = AppWrapperSuspended

\* C5 as stated: whenever the persisted phase is Resuming or Running, both
\* QuotaReserved and ResourcesDeployed are true.
C5_Original ==
    (aw.exists /\ aw.phase \in { AppWrapperResuming, AppWrapperRunning }) =>
        IsTrue(aw, QuotaReserved) /\ IsTrue(aw, ResourcesDeployed)

\* C5, amended: whenever the persisted phase is Resuming or Running and the
\* workload is not marked for deletion, both QuotaReserved and
\* ResourcesDeployed are true.
C5_DeployedWhileResumingOrRunning ==
    (aw.exists /\ ~aw.deletionTimestamp
        /\ aw.phase \in { AppWrapperResuming, AppWrapperRunning }) =>
        IsTrue(aw, QuotaReserved) /\ IsTrue(aw, ResourcesDeployed)

\* Resuming was entered from Resetting: a retry is counted and the children of
\* the deployment before are gone.
C5_Witness ==
    /\ aw.exists /\ ~aw.deletionTimestamp
    /\ aw.phase = AppWrapperResuming
    /\ aw.retries > 0
    /\ ~ChildExists(children)
    /\ IsTrue(aw, ResourcesDeployed)

\* The edges of the phase graph.
PhaseEdges ==
    { << AppWrapperEmpty, AppWrapperSuspended >>,
      << AppWrapperSuspended, AppWrapperResuming >>,
      << AppWrapperResuming, AppWrapperRunning >>,
      << AppWrapperResuming, AppWrapperSuspending >>,
      << AppWrapperResuming, AppWrapperResetting >>,
      << AppWrapperResuming, AppWrapperFailed >>,
      << AppWrapperRunning, AppWrapperSuspending >>,
      << AppWrapperRunning, AppWrapperResetting >>,
      << AppWrapperRunning, AppWrapperSucceeded >>,
      << AppWrapperRunning, AppWrapperFailed >>,
      << AppWrapperSuspending, AppWrapperSuspended >>,
      << AppWrapperResetting, AppWrapperResuming >>,
      << AppWrapperResetting, AppWrapperSuspending >> }

\* C6: every change of the persisted phase follows an edge of the phase graph,
\* or leads to Terminating in a workload marked for deletion; the phase is
\* always one of the nine.
C6_PhaseEdges ==
    [][ /\ aw'.phase \in Phases
        /\ aw'.phase # aw.phase =>
              \/ << aw.phase, aw'.phase >> \in PhaseEdges
              \/ aw'.phase = AppWrapperTerminating /\ aw.deletionTimestamp ]_vars

\* Suspending was entered from Resetting or from a deployment after a reset.
C6_Witness ==
    /\ aw.phase = AppWrapperSuspending
    /\ aw.retries > 0
    /\ aw.conditions[Unhealthy].reason = "InsufficientPodsReady"

\* C7: once the persisted phase is Failed or Succeeded, a step changes it only
\* to Terminating and only in a workload marked for deletion.
C7_TerminalPhasesAbsorb ==
    [][ (aw.phase \in { AppWrapperFailed, AppWrapperSucceeded } /\ aw'.phase # aw.phase) =>
            aw'.phase = AppWrapperTerminating /\ aw.deletionTimestamp ]_vars

\* A suspended workload stays Failed after the cleanup of Failed has run.
C7_Witness ==
    /\ aw.phase = AppWrapperFailed
    /\ aw.suspend
    /\ ~aw.deletionTimestamp
    /\ aw.conditions[ResourcesDeployed].status = ConditionFalse
    /\ aw.conditions[ResourcesDeployed].reason = AppWrapperFailed

\* C8: in Running with suspend = false and a number of components found
\* deployed that differs from the number of componentStatus records, an
\* invocation either returns an error and writes nothing, or commits Failed
\* with Unhealthy true for the reason MissingComponent and leaves retries as
\* they are; it does not list the pods.
C8_MissingComponentFails ==
    (Reads(AppWrapperRunning) /\ ~aw.suspend
        /\ Deployed(aw, children) # Len(aw.componentStatus)) =>
        \A o \in Invocations :
            /\ ~o.result.sampled
            /\ \/ o.result.err /\ o.aw = aw
               \/ /\ o.aw.phase = AppWrapperFailed
                  /\ IsTrue(o.aw, Unhealthy)
                  /\ o.aw.conditions[Unhealthy].reason = "MissingComponent"
                  /\ o.aw.retries = aw.retries

\* Failed for a missing component with the retry budget not used up.
C8_Witness ==
    /\ aw.phase = AppWrapperFailed
    /\ aw.conditions[Unhealthy].reason = "MissingComponent"
    /\ IsTrue(aw, Unhealthy)
    /\ aw.retries < LimitInForce

\* C9: in Resuming with suspend = false, an invocation whose createComponents
\* reports a fatal error either returns an error and writes nothing, or commits
\* Failed with Unhealthy true and leaves retries as they are; one whose
\* createComponents reports a non-fatal error either returns an error and
\* writes nothing, or commits what resetOrFail decides: Resetting with one more
\* retry when retries < limit, Failed with the same retries otherwise.
C9_FatalCreateBypassesRetry ==
    (Reads(AppWrapperResuming) /\ ~aw.suspend) =>
        \A o \in Invocations :
            /\ o.result.create # NotCalled
            /\ o.result.create = CreateFatal =>
                  \/ o.result.err /\ o.aw = aw
                  \/ /\ o.aw.phase = AppWrapperFailed
                     /\ IsTrue(o.aw, Unhealthy)
                     /\ o.aw.retries = aw.retries
            /\ o.result.create = CreateError =>
                  \/ o.result.err /\ o.aw = aw
                  \/ /\ IsTrue(o.aw, Unhealthy)
                     /\ IF aw.retries < LimitInForce
                        THEN o.aw.phase = AppWrapperResetting /\ o.aw.retries = aw.retries + 1
                        ELSE o.aw.phase = AppWrapperFailed /\ o.aw.retries = aw.retries

\* Failed for a creation error with the retry budget not used up and no pod
\* ever found failed or unready: the error was fatal.
C9_Witness ==
    /\ aw.phase = AppWrapperFailed
    /\ aw.conditions[Unhealthy].reason = "CreateFailed"
    /\ aw.retries = 0
    /\ LimitInForce > 0

\* C10: in Running with suspend = false and every component deployed, an
\* invocation that lists the pods and returns no error commits Succeeded
\* exactly when succeeded >= expected and pending + running + failed = 0, and
\* that commit has QuotaReserved false and ResourcesDeployed true.
C10_SucceededExactlyWhen ==
    (Reads(AppWrapperRunning) /\ ~aw.suspend
        /\ Deployed(aw, children) = Len(aw.componentStatus)) =>
        \A o \in Invocations :
            (o.result.sampled /\ ~o.result.err) =>
                /\ o.result.pods.expected = aw.expectedPods
                /\ o.aw.phase = AppWrapperSucceeded <=>
                      /\ o.result.pods.succeeded >= aw.expectedPods
                      /\ o.result.pods.pending + o.result.pods.running
                            + o.result.pods.failed = 0
                /\ o.aw.phase = AppWrapperSucceeded =>
                      /\ o.aw.conditions[QuotaReserved].status = ConditionFalse
                      /\ IsTrue(o.aw, ResourcesDeployed)

\* Succeeded with the children still deployed and the quota released.
C10_Witness ==
    /\ aw.phase = AppWrapperSucceeded
    /\ ~aw.deletionTimestamp
    /\ aw.expectedPods > 0
    /\ aw.conditions[QuotaReserved].status = ConditionFalse
    /\ aw.conditions[QuotaReserved].reason = AppWrapperSucceeded
    /\ IsTrue(aw, ResourcesDeployed)

\* C11: with suspend = false throughout, a retry limit N >= 0 and a
\* createComponents that always returns a non-fatal error, the persisted phase
\* moves only Empty -> Suspended -> Resuming, Resuming -> Resetting (which adds
\* one to retries, with retries < N before), Resetting -> Resuming, and
\* Resuming -> Failed with retries = N; retries change in no other step; and
\* the workload ends in Failed with retries = N, that is after exactly N
\* resets.
C11_CreateFailureRetries ==
    /\ [][ /\ aw'.retries # aw.retries =>
                 aw.phase = AppWrapperResuming /\ aw'.phase = AppWrapperResetting
           /\ aw'.phase # aw.phase =>
                 \/ aw.phase = AppWrapperEmpty /\ aw'.phase = AppWrapperSuspended
                 \/ aw.phase = AppWrapperSuspended /\ aw'.phase = AppWrapperResuming
                 \/ /\ aw.phase = AppWrapperResuming /\ aw'.phase = AppWrapperResetting
                    /\ aw.retries < LimitInForce
                    /\ aw'.retries = aw.retries + 1
                 \/ aw.phase = AppWrapperResetting /\ aw'.phase = AppWrapperResuming
                 \/ /\ aw.phase = AppWrapperResuming /\ aw'.phase = AppWrapperFailed
                    /\ aw.retries = LimitInForce ]_vars
    /\ <>[](aw.phase = AppWrapperFailed /\ aw.retries = LimitInForce)

\* Failed after two resets, with a retry limit of two.
C11_Witness ==
    /\ aw.phase = AppWrapperFailed
    /\ LimitInForce = 2
    /\ aw.retries = 2
    /\ aw.conditions[Unhealthy].reason = "CreateFailed"
    /\ ~aw.suspend

\* The deployment is live: the workload is not marked for deletion and its
\* phase is Resuming, Running or Resetting.
Deploying ==
    /\ aw.exists /\ ~aw.deletionTimestamp
    /\ aw.phase \in { AppWrapperResuming, AppWrapperRunning, AppWrapperResetting }

\* C12: when spec.suspend is true in Resuming, Running or Resetting, the phase
\* next changes to Suspending and to nothing else; if suspend stays true and
\* the workload is not deleted, the phase becomes Suspending and then
\* Suspended; and the step that commits Suspended leaves no child behind.
C12_SuspendWhileDeployed ==
    /\ [][ (Deploying /\ aw.suspend /\ aw'.phase # aw.phase) =>
               aw'.phase = AppWrapperSuspending ]_vars
    /\ [][ (aw.phase # AppWrapperSuspended /\ aw'.phase = AppWrapperSuspended) =>
               ~ChildExists(children') ]_vars
    /\ (Deploying /\ aw.suspend) ~>
           (aw.phase = AppWrapperSuspending \/ ~aw.suspend \/ aw.deletionTimestamp)
    /\ (aw.phase = AppWrapperSuspending /\ aw.suspend) ~>
           (aw.phase = AppWrapperSuspended \/ ~aw.suspend \/ aw.deletionTimestamp)

\* Suspended again after a deployment that ran: the pods had been ready and
\* the children are gone.
C12_Witness ==
    /\ aw.phase = AppWrapperSuspended
    /\ aw.suspend
    /\ aw.conditions[PodsReady].status = ConditionFalse
    /\ aw.conditions[PodsReady].reason = AppWrapperSuspended
    /\ aw.conditions[ResourcesDeployed].reason = AppWrapperSuspended
    /\ ~ChildExists(children)

\* C13: a workload in Failed or Succeeded whose ResourcesDeployed is true
\* comes to have ResourcesDeployed false, and a workload in Failed comes to
\* have both ResourcesDeployed and QuotaReserved false, unless it is marked
\* for deletion first.
C13_TerminalPhasesReleaseResources ==
    /\ (/\ aw.phase \in { AppWrapperFailed, AppWrapperSucceeded }
        /\ IsTrue(aw, ResourcesDeployed)) ~>
           (~IsTrue(aw, ResourcesDeployed) \/ aw.deletionTimestamp)
    /\ (aw.phase = AppWrapperFailed) ~>
           \/ ~IsTrue(aw, ResourcesDeployed) /\ ~IsTrue(aw, QuotaReserved)
           \/ aw.deletionTimestamp

\* The children of a failed workload were deleted after the
\* deletion-on-failure delay, and the quota is released.
C13_Witness ==
    /\ aw.phase = AppWrapperFailed
    /\ ~aw.deletionTimestamp
    /\ ~aw.suspend
    /\ aw.conditions[DeletingResources].status = ConditionFalse
    /\ aw.conditions[ResourcesDeployed].status = ConditionFalse
    /\ aw.conditions[QuotaReserved].status = ConditionFalse
    /\ ~ChildExists(children)

\* C14: for a workload marked for deletion, in any phase, no invocation of
\* Reconcile creates a child; an invocation that leaves a child behind keeps
\* the workload and its finalizer and returns no error and a requeue after 5
\* seconds; and the finalizer is removed in the end, whatever invocations
\* failed on the way.
C14_DeletionProtocol ==
    /\ []((aw.exists /\ aw.deletionTimestamp) =>
            \A o \in Invocations :
                /\ \A i \in Components :
                      children[i] = ChildAbsent => o.children[i] = ChildAbsent
                /\ ChildExists(o.children) =>
                      /\ o.aw.exists /\ o.aw.finalizer
                      /\ ~o.result.err
                      /\ o.result.requeue = RequeueShort)
    /\ (aw.exists /\ aw.deletionTimestamp) ~> ~aw.exists

\* The workload was deleted while Running; its children are gone, both
\* conditions were cleared and the finalizer is removed.
C14_Witness ==
    /\ ~aw.exists
    /\ aw.deletionTimestamp
    /\ ~aw.finalizer
    /\ aw.phase = AppWrapperTerminating
    /\ aw.conditions[ResourcesDeployed].reason = AppWrapperTerminating
    /\ aw.conditions[QuotaReserved].reason = AppWrapperTerminating
    /\ aw.conditions[PodsReady].status = ConditionTrue
    /\ ~ChildExists(children)

\* An invocation all of whose writes succeeded: it returned no error, and the
\* write of Terminating whose error the deletion path ignores went through.
Committed(o) ==
    /\ ~o.result.err
    /\ o.result.branch = "Deletion/StillTerminating" => o.aw.phase = AppWrapperTerminating

\* The invocations that follow invocation o at once: they read what o
\* persisted and the children as o left them, and a listing of the pods
\* returns what it returned to o.
Reinvocations(o) ==
    IF o.aw.exists
    THEN { o2 \in ReconcileOutcomes(o.aw, o.children) :
             /\ o2.children = o.children
             /\ (o.result.sampled /\ o2.result.sampled) => o2.result.pods = o.result.pods }
    ELSE { GetFailed(o.aw, o.children, TRUE) }

\* C15 as stated: from any reachable state, a second invocation of Reconcile
\* with no external change in between leaves the persisted phase and
\* conditions as the first invocation left them.
C15_Original ==
    \A o1 \in Invocations :
        Committed(o1) =>
            \A o2 \in Reinvocations(o1) :
                Committed(o2) =>
                    /\ o2.aw.phase = o1.aw.phase
                    /\ o2.aw.conditions = o1.aw.conditions

\* C15, amended: when an invocation of Reconcile leaves the persisted phase
\* as it read it, a second invocation with no external change in between
\* leaves the persisted phase and conditions as the first left them.
C15_IdempotentWithinPhase ==
    \A o1 \in Invocations :
        (Committed(o1) /\ o1.aw.phase = aw.phase) =>
            \A o2 \in Reinvocations(o1) :
                Committed(o2) =>
                    /\ o2.aw.phase = o1.aw.phase
                    /\ o2.aw.conditions = o1.aw.conditions

\* A state of Running in which an invocation that finds failed pods within
\* the grace period changes a condition and not the phase.
C15_Witness ==
    /\ Reads(AppWrapperRunning) /\ ~aw.suspend
    /\ ~IsTrue(aw, Unhealthy)
    /\ \E o1 \in Invocations :
          /\ Committed(o1)
          /\ o1.result.branch = "Running/FailedPodsGrace"
          /\ o1.aw.phase = aw.phase
          /\ o1.aw.conditions # aw.conditions
          /\ \E o2 \in Reinvocations(o1) : Committed(o2) /\ o2.result.sampled

\* The annotations of the six durations that limitDuration clamps.
GraceKeys ==
    { AdmissionGracePeriodDurationAnnotation, WarmupGracePeriodDurationAnnotation,
      FailureGracePeriodDurationAnnotation, RetryPausePeriodDurationAnnotation,
      ForcefulDeletionGracePeriodAnnotation, DeletionOnFailureGracePeriodAnnotation }

\* The duration the controller resolves for the workload, by annotation.
Resolved(key) ==
    CASE key = AdmissionGracePeriodDurationAnnotation -> admissionGraceDuration(aw)
      [] key = WarmupGracePeriodDurationAnnotation -> warmupGraceDuration(aw)
      [] key = FailureGracePeriodDurationAnnotation -> failureGraceDuration(aw)
      [] key = RetryPausePeriodDurationAnnotation -> retryPauseDuration(aw)
      [] key = ForcefulDeletionGracePeriodAnnotation -> forcefulDeletionGraceDuration(aw)
      [] key = DeletionOnFailureGracePeriodAnnotation -> deletionOnFailureGraceDuration(aw)
      [] key = SuccessTTLAnnotation -> timeToLiveAfterSucceededDuration(aw)

\* The default of each duration: the configured one; the deletion-on-failure
\* delay has none in the configuration, its default is zero.
DefaultOf(key) ==
    CASE key = AdmissionGracePeriodDurationAnnotation -> config.AdmissionGracePeriod
      [] key = WarmupGracePeriodDurationAnnotation -> config.WarmupGracePeriod
      [] key = FailureGracePeriodDurationAnnotation -> config.FailureGracePeriod
      [] key = RetryPausePeriodDurationAnnotation -> config.RetryPausePeriod
      [] key = ForcefulDeletionGracePeriodAnnotation -> config.ForcefulDeletionGracePeriod
      [] key = DeletionOnFailureGracePeriodAnnotation -> 0
      [] key = SuccessTTLAnnotation -> config.SuccessTTL

\* C16: each of the admission, warmup, failure, retry-pause,
\* forceful-deletion and deletion-on-failure durations resolves to a value
\* from 0 to the configured maximum M: an override below 0 gives 0, one above
\* M gives M, any other override gives itself; and with no override or one
\* that does not parse it is the default of that duration (a default that is
\* itself at most M).
C16_GraceClamp ==
    \A key \in GraceKeys :
        LET D == Resolved(key)
            M == config.GracePeriodMaximum
            override == aw.annotations[key]
        IN  /\ 0 <= D /\ D <= M
            /\ override.kind = "value" =>
                  D = CASE override.value < 0 -> 0
                        [] override.value > M -> M
                        [] OTHER -> override.value
            /\ (override.kind # "value" /\ DefaultOf(key) <= M) => D = DefaultOf(key)

\* A negative override of the retry pause resolves to zero although the
\* configured default is positive.
C16_Witness ==
    /\ aw.annotations[RetryPausePeriodDurationAnnotation] = Value(-1)
    /\ config.RetryPausePeriod > 0
    /\ config.GracePeriodMaximum > 0
    /\ retryPauseDuration(aw) = 0

\* C17: the success time to live is the override when the override parses
\* and lies strictly between 0 and the configured default, and the configured
\* default for every other override (at most 0, at least the default, one
\* that does not parse, none); so it is never longer than the default, and
\* the grace period maximum plays no part.
C17_SuccessTTLAsymmetry ==
    LET D == timeToLiveAfterSucceededDuration(aw)
        override == aw.annotations[SuccessTTLAnnotation]
        honoured == /\ override.kind = "value"
                    /\ 0 < override.value
                    /\ override.value < config.SuccessTTL
    IN  /\ honoured => D = override.value
        /\ ~honoured => D = config.SuccessTTL
        /\ D <= config.SuccessTTL

\* An override shortens the time to live to a value above the grace period
\* maximum.
C17_Witness ==
    /\ aw.annotations[SuccessTTLAnnotation] = Value(1)
    /\ config.SuccessTTL = 2
    /\ config.GracePeriodMaximum = 0
    /\ timeToLiveAfterSucceededDuration(aw) = 1

\* C18: when the Get at the start of Reconcile fails although the workload
\* exists (a transient store error), Reconcile returns the error; when it
\* fails because the workload is gone, Reconcile returns no error and does
\* nothing.
C18_GetErrorPropagated ==
    /\ aw.exists =>
          LET o == GetFailed(aw, children, FALSE)
          IN  o.result.err /\ o.aw = aw /\ o.children = children
    /\ ~aw.exists =>
          LET o == GetFailed(aw, children, TRUE)
          IN  ~o.result.err /\ o.aw = aw /\ o.children = children

\* Failed pods were detected in the deployment that is running now: Unhealthy
\* is true and became so no earlier than ResourcesDeployed did.
DetectedInThisDeployment ==
    /\ IsTrue(aw, Unhealthy)
    /\ aw.conditions[Unhealthy].age <= aw.conditions[ResourcesDeployed].age

\* The time since failed pods were first detected in the deployment that is
\* running now, for an invocation that observes failed pods: zero when this
\* invocation is the first to detect them.
SinceDetected ==
    IF DetectedInThisDeployment THEN aw.conditions[Unhealthy].age ELSE 0

\* C19: in Running, an invocation that observes failed pods and returns no
\* error keeps the phase Running and requeues for the time remaining while
\* less than the failure grace period has passed since failed pods were first
\* detected in the current deployment, and goes to resetOrFail only from then
\* on; also in a deployment that follows a reset.
C19_FailedPodsGrace ==
    (Reads(AppWrapperRunning) /\ ~aw.suspend) =>
        \A o \in Invocations :
            (o.result.sampled /\ o.result.pods.failed > 0 /\ ~o.result.err) =>
                IF SinceDetected < failureGraceDuration(aw)
                THEN /\ o.aw.phase = AppWrapperRunning
                     /\ o.result.requeue = failureGraceDuration(aw) - SinceDetected
                ELSE o.result.branch = "Running/FoundFailedPods"

\* C20: for a workload in Succeeded with ResourcesDeployed true, while less
\* than the success time to live has passed since the workload became
\* Succeeded, an invocation deletes no child and, when it returns no error,
\* requeues for the time remaining.
C20_ChildrenKeptForTTL ==
    (Reads(AppWrapperSucceeded) /\ IsTrue(aw, ResourcesDeployed)) =>
        LET sinceSucceeded == aw.conditions[QuotaReserved].age
            ttl == timeToLiveAfterSucceededDuration(aw)
        IN  sinceSucceeded < ttl =>
                \A o \in Invocations :
                    /\ o.children = children
                    /\ IsTrue(o.aw, ResourcesDeployed)
                    /\ ~o.result.err => o.result.requeue = ttl - sinceSucceeded

\* C21: an invocation that reads Resetting commits Resuming only when it read
\* suspend=false, no child is left after its deleteComponents and the retry
\* pause has passed since the last transition of Unhealthy, and that commit
\* sets ResourcesDeployed to true.  With suspend=false and until then the
\* phase stays Resetting: the invocation requeues in 5 seconds while a child
\* is still being deleted, and for the rest of the pause while the pause runs.
C21_ResettingToResuming ==
    [](Reads(AppWrapperResetting) =>
          LET sinceReset == aw.conditions[Unhealthy].age
              pause == retryPauseDuration(aw)
          IN  \A o \in Invocations :
                  /\ o.aw.phase = AppWrapperResuming =>
                        /\ ~aw.suspend
                        /\ ~ChildExists(o.children)
                        /\ sinceReset >= pause
                        /\ IsTrue(o.aw, ResourcesDeployed)
                  /\ (~aw.suspend /\ (ChildExists(o.children) \/ sinceReset < pause)) =>
                        /\ o.aw.phase = AppWrapperResetting
                        /\ o.aw.retries = aw.retries
                        /\ ~o.result.err =>
                              o.result.requeue = IF ChildExists(o.children) THEN RequeueShort
                                                 ELSE pause - sinceReset)

\* A reset has ended: the phase is Resuming with Unhealthy still true (a
\* deployment begun from Suspended has Unhealthy false), ResourcesDeployed
\* true again, no child left, and the pause over.
C21_Witness ==
    /\ Reads(AppWrapperResuming)
    /\ IsTrue(aw, Unhealthy)
    /\ IsTrue(aw, ResourcesDeployed)
    /\ aw.conditions[ResourcesDeployed].age = 0
    /\ aw.conditions[Unhealthy].age >= retryPauseDuration(aw)
    /\ retryPauseDuration(aw) > 0
    /\ ~ChildExists(children)

\* The grace period that applies to a pod summary with too few ready pods:
\* the warmup grace period when the pending, running and succeeded pods
\* together reach the expected count, the admission grace period otherwise.
ApplicableGrace(ps) ==
    IF ps.pending + ps.running + ps.succeeded >= ps.expected
    THEN warmupGraceDuration(aw)
    ELSE admissionGraceDuration(aw)

\* An invocation in Running (suspend=false) that listed the pods and found no
\* failed pod and fewer running and succeeded pods than expected.
NotEnoughReady(o) ==
    /\ o.result.sampled
    /\ o.result.pods.failed = 0
    /\ o.result.pods.running + o.result.pods.succeeded < o.result.pods.expected

\* C22: in Running, an invocation that finds no failed pod and
\* running + succeeded < expected goes to resetOrFail (the phase leaves
\* Running, with Unhealthy true for InsufficientPodsReady) only when the
\* applicable grace period has passed since ResourcesDeployed last became
\* true; before that the phase stays Running and PodsReady is not true.  (The
\* conditions are those of an invocation whose status write succeeds.)
C22_InsufficientPodsGrace ==
    []((Reads(AppWrapperRunning) /\ ~aw.suspend) =>
          \A o \in Invocations :
              NotEnoughReady(o) =>
                  LET sinceDeployed == aw.conditions[ResourcesDeployed].age
                      grace == ApplicableGrace(o.result.pods)
                  IN  /\ (o.result.branch = "Running/InsufficientPodsReady"
                            \/ o.aw.phase # AppWrapperRunning) =>
                            /\ sinceDeployed >= grace
                            /\ ~o.result.err =>
                                  /\ o.aw.phase \in { AppWrapperResetting, AppWrapperFailed }
                                  /\ IsTrue(o.aw, Unhealthy)
                                  /\ o.aw.conditions[Unhealthy].reason = "InsufficientPodsReady"
                      /\ sinceDeployed < grace =>
                            /\ o.aw.phase = AppWrapperRunning
                            /\ o.aw.retries = aw.retries
                            /\ ~o.result.err => ~IsTrue(o.aw, PodsReady))

\* The warmup grace period is longer than the admission grace period and a
\* deployment whose pods were pending has been given up after it.
C22_Witness ==
    /\ aw.exists
    /\ aw.phase \in { AppWrapperResetting, AppWrapperFailed }
    /\ IsTrue(aw, Unhealthy)
    /\ aw.conditions[Unhealthy].reason = "InsufficientPodsReady"
    /\ aw.conditions[Unhealthy].age = 0
    /\ aw.conditions[ResourcesDeployed].age >= warmupGraceDuration(aw)
    /\ warmupGraceDuration(aw) > admissionGraceDuration(aw)

\* C23: in Running, an invocation that finds too few ready pods while the
\* applicable grace period has not passed since ResourcesDeployed became true
\* keeps the phase Running and, when it returns no error, requeues for the
\* time remaining until the grace deadline.
C23_RequeueAtGraceDeadline ==
    (Reads(AppWrapperRunning) /\ ~aw.suspend) =>
        \A o \in Invocations :
            LET sinceDeployed == aw.conditions[ResourcesDeployed].age
                grace == ApplicableGrace(o.result.pods)
            IN  (NotEnoughReady(o) /\ sinceDeployed < grace) =>
                    /\ o.aw.phase = AppWrapperRunning
                    /\ ~o.result.err => o.result.requeue = grace - sinceDeployed

\* The time since the DeletingResources condition was first recorded: zero
\* for the invocation that records it.
SinceDelayed ==
    IF aw.conditions[DeletingResources].status = ConditionAbsent
    THEN 0
    ELSE aw.conditions[DeletingResources].age

\* C24: in Failed with a deletion-on-failure delay above zero.  A commit that
\* moves the phase to Failed leaves QuotaReserved and ResourcesDeployed true.
\* With suspend=false, while less than the delay has passed since
\* DeletingResources was first recorded, an invocation deletes no child and
\* leaves QuotaReserved, ResourcesDeployed and the phase as they are.  With
\* suspend=true an invocation deletes the children without waiting (none
\* stays undeleted); once none is left it persists ResourcesDeployed=false
\* and QuotaReserved=false with the phase Failed, and until then it requeues
\* in 5 seconds.
C24_DeletionOnFailureDelay ==
    /\ [][(aw.exists /\ aw.phase # AppWrapperFailed /\ aw'.phase = AppWrapperFailed) =>
            (IsTrue(aw', QuotaReserved) /\ IsTrue(aw', ResourcesDeployed))]_vars
    /\ []((Reads(AppWrapperFailed) /\ deletionOnFailureGraceDuration(aw) > 0) =>
            \A o \in Invocations :
                /\ o.aw.phase = AppWrapperFailed
                /\ (~aw.suspend /\ SinceDelayed < deletionOnFailureGraceDuration(aw)) =>
                      /\ o.children = children
                      /\ IsTrue(o.aw, QuotaReserved) = IsTrue(aw, QuotaReserved)
                      /\ IsTrue(o.aw, ResourcesDeployed) = IsTrue(aw, ResourcesDeployed)
                /\ (aw.suspend /\ IsTrue(aw, ResourcesDeployed)) =>
                      /\ \A i \in Components : o.children[i] # ChildPresent
                      /\ ~o.result.err =>
                            IF ChildExists(o.children)
                            THEN o.result.requeue = RequeueShort /\ o.aw = aw
                            ELSE /\ ~IsTrue(o.aw, ResourcesDeployed)
                                 /\ ~IsTrue(o.aw, QuotaReserved)
                                 /\ o.result.requeue = 0)

\* The workload was suspended during the delay and its children were deleted
\* before the delay was over.
C24_Witness ==
    /\ Reads(AppWrapperFailed)
    /\ deletionOnFailureGraceDuration(aw) > 0
    /\ aw.suspend
    /\ aw.conditions[DeletingResources].status = ConditionFalse
    /\ SinceDelayed < deletionOnFailureGraceDuration(aw)
    /\ aw.conditions[ResourcesDeployed].status = ConditionFalse
    /\ aw.conditions[ResourcesDeployed].reason = AppWrapperFailed
    /\ aw.conditions[QuotaReserved].status = ConditionFalse
    /\ ~ChildExists(children)

\* C25: for a workload that is not marked for deletion, whatever
\* spec.suspend is and however it changes: a step from Suspending leaves the
\* phase Suspending or makes it Suspended, and makes it Suspended only when
\* no child is left; an invocation in Suspending creates no child; a
\* deployment begins (Suspended to Resuming) only with no child left; and
\* Suspending leads to Suspended.
C25_SuspendingFinishes ==
    /\ [][(aw.exists /\ aw.phase = AppWrapperSuspending /\ ~aw'.deletionTimestamp) =>
            /\ aw'.phase \in { AppWrapperSuspending, AppWrapperSuspended }
            /\ aw'.phase = AppWrapperSuspended => ~ChildExists(children')
            /\ \A i \in Components : children[i] = ChildAbsent => children'[i] = ChildAbsent]_vars
    /\ [][(aw.exists /\ aw.phase = AppWrapperSuspended /\ aw'.phase # AppWrapperSuspended
              /\ ~aw'.deletionTimestamp) =>
            /\ aw'.phase = AppWrapperResuming
            /\ ~ChildExists(children)]_vars
    /\ (aw.exists /\ ~aw.deletionTimestamp /\ aw.phase = AppWrapperSuspending)
          ~> (~aw.exists \/ aw.deletionTimestamp \/ aw.phase = AppWrapperSuspended)

\* The workload is resumed (suspend=false) in Suspending while a child is
\* still terminating, every delete has been issued, and every invocation
\* leaves the phase Suspending.
C25_Witness ==
    /\ Reads(AppWrapperSuspending)
    /\ ~aw.suspend
    /\ \E i \in Components : children[i] = ChildTerminating
    /\ \A i \in Components : children[i] # ChildPresent
    /\ \A o \in Invocations : o.aw.phase = AppWrapperSuspending /\ o.result.requeue = RequeueShort

\* C26: an invocation that reads suspend=true in Resuming, Running or
\* Resetting calls neither createComponents nor deleteComponents, samples
\* neither the pods nor the components, and changes no condition and not
\* status.retries; when its write succeeds the phase is Suspending, and when
\* it fails nothing is persisted.
C26_SuspendTakesPriority ==
    []((/\ aw.exists /\ ~aw.deletionTimestamp /\ aw.suspend
       /\ aw.phase \in { AppWrapperResuming, AppWrapperRunning, AppWrapperResetting }) =>
          \A o \in Invocations :
              /\ o.children = children
              /\ o.result.create = NotCalled
              /\ ~o.result.sampled
              /\ o.aw.componentStatus = aw.componentStatus
              /\ o.aw.conditions = aw.conditions
              /\ o.aw.retries = aw.retries
              /\ o.result.requeue = 0
              /\ IF o.result.err THEN o.aw = aw ELSE o.aw.phase = AppWrapperSuspending)

\* A suspension was committed in Running: the phase is Suspending with
\* PodsReady still true and every child still present.
C26_Witness ==
    /\ Reads(AppWrapperSuspending)
    /\ aw.suspend
    /\ IsTrue(aw, PodsReady)
    /\ IsTrue(aw, ResourcesDeployed)
    /\ \A i \in Components : children[i] = ChildPresent

\* C27: whenever the persisted phase is Resetting or Failed the Unhealthy
\* condition is true.  (A commit is one step: the step that makes the phase
\* Resetting or Failed persists Unhealthy=true with it, and no step taken in
\* these phases makes it false.)
C27_UnhealthyWhileResettingOrFailed ==
    []((aw.exists /\ aw.phase \in { AppWrapperResetting, AppWrapperFailed }) =>
          IsTrue(aw, Unhealthy))

\* A workload failed for a missing component that was healthy before, and
\* the cleanup of Failed has released its quota: Unhealthy is still true.
C27_Witness ==
    /\ Reads(AppWrapperFailed)
    /\ IsTrue(aw, Unhealthy)
    /\ aw.conditions[Unhealthy].reason = "MissingComponent"
    /\ aw.conditions[QuotaReserved].status = ConditionFalse
    /\ aw.conditions[ResourcesDeployed].status = ConditionFalse

\* C28: whenever the persisted phase is Succeeded the Unhealthy condition is
\* not true, also when the success is observed after failed pods were
\* detected within their grace period, or after a reset.
C28_SucceededIsHealthy ==
    (aw.exists /\ aw.phase = AppWrapperSucceeded) => ~IsTrue(aw, Unhealthy)

\* The state an invocation leaves is a waiting state: the workload is in
\* Running; in Suspending or Resetting with a child still there or the retry
\* pause running; in Failed or Succeeded with ResourcesDeployed true; or
\* marked for deletion with a child still there.
Waiting(o) ==
    /\ o.aw.exists
    /\ IF o.aw.deletionTimestamp
       THEN ChildExists(o.children)
       ELSE \/ o.aw.phase = AppWrapperRunning
            \/ /\ o.aw.phase = AppWrapperSuspending
               /\ ChildExists(o.children)
            \/ /\ o.aw.phase = AppWrapperResetting
               /\ \/ ChildExists(o.children)
                  \/ o.aw.conditions[Unhealthy].age < retryPauseDuration(o.aw)
            \/ /\ o.aw.phase \in { AppWrapperFailed, AppWrapperSucceeded }
               /\ IsTrue(o.aw, ResourcesDeployed)

\* The state an invocation leaves has nothing left to do: the workload is
\* gone, or Suspended with suspend=true, or Failed or Succeeded with
\* ResourcesDeployed not true and no child.
NothingLeftToDo(o) ==
    \/ ~o.aw.exists
    \/ /\ ~o.aw.deletionTimestamp
       /\ \/ o.aw.phase = AppWrapperSuspended /\ o.aw.suspend
          \/ /\ o.aw.phase \in { AppWrapperFailed, AppWrapperSucceeded }
             /\ ~IsTrue(o.aw, ResourcesDeployed)
             /\ ~ChildExists(o.children)

\* An invocation that returns no error and leaves the persisted phase as it
\* was returns a requeue delay above zero when it leaves a waiting state, and
\* returns no requeue only when nothing is left to do.
NoStall(o) ==
    (~o.result.err /\ o.aw.phase = aw.phase) =>
        /\ Waiting(o) => o.result.requeue > 0
        /\ o.result.requeue = 0 => NothingLeftToDo(o)

\* C29: no waiting state stalls: every invocation of Reconcile on the
\* workload, the one whose Get fails although the workload exists included,
\* that returns no error and leaves the phase as it was returns a requeue
\* delay above zero when it leaves a waiting state, and returns without a
\* requeue only after a phase change or when nothing is left to do.
C29_NoWaitingStateStalls ==
    aw.exists =>
        \A o \in Invocations \cup { GetFailed(aw, children, FALSE) } : NoStall(o)

\* C30: status.retries never decreases; a step changes it only by adding
\* one, in an invocation that reads Resuming or Running and commits
\* Resetting; every other step, those of a suspend and resume cycle
\* (Suspending, Suspended, Resuming) included, leaves it as it is.
C30_RetriesOnlyGrowInResetOrFail ==
    [][aw.exists =>
        \/ aw'.retries = aw.retries
        \/ /\ aw'.retries = aw.retries + 1
           /\ aw.phase \in { AppWrapperResuming, AppWrapperRunning }
           /\ aw'.phase = AppWrapperResetting
           /\ ~aw.suspend /\ ~aw.deletionTimestamp]_vars

\* A workload that used a retry was suspended and resumed: it is deploying
\* from Suspended (Unhealthy was set false on the way) with the retry still
\* counted.
C30_Witness ==
    /\ Reads(AppWrapperResuming)
    /\ aw.retries >= 1
    /\ aw.retries = LimitInForce
    /\ aw.conditions[Unhealthy].status = ConditionFalse
    /\ aw.conditions[Unhealthy].reason = AppWrapperResuming

\* ------------------------------------------------------- a tour of the phases
\* Behaviours of Spec picked by a script, to show which phases a new workload
\* reaches.  A workload with a retry limit of at least one is deployed, finds
\* failed pods and is reset, is deployed again, is suspended and resumed,
\* succeeds, and is marked for deletion while its children are still there.
\* A workload with no retry fails at its first deployment.
TourRetries == retryLimit(aw) >= 1

\* The deployment began from Suspended and no pod has failed in it.
CleanDeployment == aw.conditions[Unhealthy].reason = AppWrapperResuming

\* The outcomes of Reconcile that the script follows: every write succeeds;
\* createComponents succeeds for the workload with retries and fails for the
\* other; the first deployment lists a failed pod; the deployment after the
\* reset waits for the suspension; the deployment after the suspension lists
\* success; Succeeded waits for the deletion mark; and the first invocation of
\* the deletion path finds a child still terminating.
Script(o) ==
    /\ ~o.result.err
    /\ IF aw.deletionTimestamp
       THEN aw.phase # AppWrapperTerminating => o.aw.phase = AppWrapperTerminating
       ELSE CASE aw.phase = AppWrapperResuming /\ ~aw.suspend ->
                   o.result.create = IF TourRetries THEN CreateOK ELSE CreateError
              [] aw.phase = AppWrapperRunning /\ ~aw.suspend ->
                   IF aw.retries = 0
                   THEN o.result.sampled /\ o.result.pods.failed > 0
                   ELSE /\ CleanDeployment
                        /\ o.result.sampled
                        /\ PodsSucceeded(o.result.pods)
              [] aw.phase = AppWrapperSucceeded -> FALSE
              [] OTHER -> TRUE

TourReconcile ==
    /\ aw.exists
    /\ \E o \in ReconcileOutcomes(aw, children) : Script(o) /\ Apply(o)

\* The workload is resumed when it is Suspended, and suspended in the
\* deployment that follows the reset.
TourSuspend ==
    /\ ~aw.deletionTimestamp
    /\ \/ aw.suspend /\ aw.phase = AppWrapperSuspended
       \/ /\ ~aw.suspend
          /\ aw.phase = AppWrapperRunning
          /\ aw.retries >= 1
          /\ ~CleanDeployment
    /\ SetSuspend

\* The workload is marked for deletion once it has succeeded.
TourDelete ==
    /\ aw.phase = AppWrapperSucceeded
    /\ MarkDeleted

NextTour ==
    \/ TourReconcile
    \/ TourSuspend
    \/ TourDelete
    \/ Tick
    \/ ChildGone

\* The dispatcher invokes Reconcile until its writes succeed, the script's
\* events come, time passes and a child that is terminating goes away.
SpecTour ==
    /\ Init
    /\ [][NextTour]_vars
    /\ WF_vars(TourReconcile)
    /\ WF_vars(TourSuspend)
    /\ WF_vars(TourDelete)
    /\ WF_vars(Tick)
    /\ WF_vars(ChildGone)

\* C31: every one of the nine phases is reached from a new workload by
\* reconciles and external events.  The behaviours of the tour are
\* behaviours of the controller (every step of the tour is a step of Next
\* from a workload of Init); a new workload is Empty; the tour of a workload
\* with a retry visits Suspended, Resuming, Running, Resetting, Suspending,
\* Succeeded and Terminating; and the tour of a workload without one visits
\* Failed.
C31_EveryPhaseReachable ==
    /\ [][Next]_vars
    /\ aw.phase = AppWrapperEmpty
    /\ TourRetries =>
          /\ <>(aw.phase = AppWrapperSuspended)
          /\ <>(aw.phase = AppWrapperResuming)
          /\ <>(aw.phase = AppWrapperRunning)
          /\ <>(aw.phase = AppWrapperResetting)
          /\ <>(aw.phase = AppWrapperSuspending)
          /\ <>(aw.phase = AppWrapperSucceeded)
          /\ <>(aw.phase = AppWrapperTerminating)
    /\ ~TourRetries => <>(aw.phase = AppWrapperFailed)

\* The end of the tour: a workload that was reset (a retry is counted),
\* suspended and resumed (its last deployment began from Suspended) and
\* succeeded is Terminating.
C31_Witness ==
    /\ aw.exists
    /\ aw.phase = AppWrapperTerminating
    /\ aw.retries >= 1
    /\ CleanDeployment
    /\ aw.conditions[QuotaReserved].reason = AppWrapperSucceeded

\* The invocations that listed the pods and found none.
FoundNoPods == { o \in Invocations : o.result.sampled /\ o.result.pods = NoPods }

\* A Running workload that is not suspended, expects no pod and has all its
\* components deployed.
RunningWithoutPods ==
    /\ Reads(AppWrapperRunning)
    /\ ~aw.suspend
    /\ ExpectedPodCount(aw) = 0
    /\ Deployed(aw, children) = Len(aw.componentStatus)

\* C32: a Running workload that expects no pod, is not suspended and has all
\* its components deployed succeeds at the reconcile that lists no pod: the
\* invocation takes the Handle Success branch, and the status it writes has
\* the phase Succeeded and QuotaReserved false; when the write fails the
\* invocation returns the error and the workload is as it was.
C32_NoPodsSucceeds ==
    [](RunningWithoutPods =>
         /\ FoundNoPods # {}
         /\ \A o \in FoundNoPods :
               /\ o.result.branch = "Running/Succeeded"
               /\ IF o.result.err
                  THEN o.aw = aw
                  ELSE /\ o.aw.phase = AppWrapperSucceeded
                       /\ o.aw.conditions[QuotaReserved].status = ConditionFalse
                       /\ o.aw.conditions[QuotaReserved].reason = AppWrapperSucceeded
                       /\ o.result.requeue = 0)

C32_Witness ==
    /\ RunningWithoutPods
    /\ \E o \in FoundNoPods : o.aw.phase = AppWrapperSucceeded

\* The invocations that listed the pods and found a failed one.
FoundFailedPods == { o \in Invocations : o.result.sampled /\ o.result.pods.failed > 0 }

\* A Running workload that is not suspended and has all its components deployed.
RunningDeployed ==
    /\ Reads(AppWrapperRunning)
    /\ ~aw.suspend
    /\ Deployed(aw, children) = Len(aw.componentStatus)

\* C33: in Running, not suspended and with all components deployed, an
\* invocation that lists a failed pod, whatever the other counts, never
\* leaves the workload Succeeded and never changes PodsReady; it takes the
\* branch of the failed pods, which waits until the end of the failure grace
\* period (the phase stays Running and a requeue is asked) or goes through
\* resetOrFail (Resetting or Failed); and the status it writes has Unhealthy
\* true with the reason FoundFailedPods.
C33_FailedPodsDetectedEagerly ==
    [](RunningDeployed =>
         \A o \in FoundFailedPods :
             /\ o.aw.phase # AppWrapperSucceeded
             /\ o.aw.conditions[PodsReady] = aw.conditions[PodsReady]
             /\ o.result.branch \in { "Running/FailedPodsGrace", "Running/FoundFailedPods" }
             /\ IF o.result.err
                THEN o.aw = aw
                ELSE /\ IsTrue(o.aw, Unhealthy)
                     /\ o.aw.conditions[Unhealthy].reason = "FoundFailedPods"
                     /\ IF o.result.branch = "Running/FailedPodsGrace"
                        THEN /\ o.aw.phase = AppWrapperRunning
                             /\ o.result.requeue > 0
                             /\ o.aw.retries = aw.retries
                        ELSE /\ o.aw.phase \in { AppWrapperResetting, AppWrapperFailed }
                             /\ o.aw.phase = AppWrapperResetting <=> aw.retries < LimitInForce)

\* A failed pod is listed with enough running or succeeded pods for a
\* workload that expects a pod, and the invocation goes through resetOrFail.
C33_Witness ==
    /\ RunningDeployed
    /\ ExpectedPodCount(aw) >= 1
    /\ \E o \in FoundFailedPods :
          /\ o.result.pods.running + o.result.pods.succeeded >= o.result.pods.expected
          /\ o.result.branch = "Running/FoundFailedPods"
          /\ o.aw.phase = AppWrapperResetting

\* ------------------------------------------------ a writer between read and write
\* The store rejected the status write of the invocation, or the write of the
\* finalizer that comes before it (the write of the finalizer at the end of
\* the deletion path comes after the status write).
CommitRejected(o) ==
    /\ o.result.rejected
    /\ o.result.branch # "Deletion/UpdateFailed"

RejectedCommits == { o \in Invocations : CommitRejected(o) }

\* An invocation reads the workload, another writer flips spec.suspend, and
\* the store rejects the write of the invocation, which was computed from the
\* object read before the flip: the persisted object is the one the flip
\* left, together with what the invocation did to the children.
ReconcileConflict ==
    /\ aw.exists
    /\ \E o \in ReconcileOutcomes(aw, children) :
          /\ CommitRejected(o)
          /\ aw' = [o.aw EXCEPT !.suspend = ~@]
          /\ children' = o.children
          /\ UNCHANGED config

NextRace ==
    \/ Next
    \/ ReconcileConflict

\* The workloads of the fair dispatcher with the other writer.
SpecRace ==
    /\ InitFair
    /\ [][NextRace]_vars
    /\ WF_vars(ReconcileCommits)
    /\ WF_vars(Tick)
    /\ WF_vars(ChildGone)

StatusAsBefore(a, b) ==
    /\ b.phase = a.phase
    /\ b.conditions = a.conditions
    /\ b.retries = a.retries

Returns(branch) == { Outcome(aw, children, Result(branch, FALSE, 0)) }

IsFalse(a, type) == a.conditions[type].status = ConditionFalse

\* Failed after the cleanup.
FailedCleanedUp ==
    /\ Reads(AppWrapperFailed)
    /\ IsFalse(aw, ResourcesDeployed)
    /\ IsFalse(aw, QuotaReserved)

============================================================================
